---- MODULE Spec2Model ----
(***************************************************************************)
(* Git AI Assistant: the generate-PR-description command, the diff reader, *)
(* the template manager, the AI service adapters and their factory.        *)
(*                                                                         *)
(* The repository holds three revisions of the command:                    *)
(*   "legacy"  - src/src/extension.ts:1655-1720, adapter AIService         *)
(*   "factory" - src/unnamed/part_002:370-491,   adapter via the factory   *)
(*   "copilot" - src/src/extension.ts:164-275,   adapter CopilotAIService  *)
(* The variable build says which revision is running.                      *)
(*                                                                         *)
(* JavaScript strings are TLA+ strings; the literals are the source's.     *)
(***************************************************************************)
EXTENDS Integers, Sequences, FiniteSets, TLC

VARIABLES
  build,        \* revision of the command that is installed
  config,       \* vscode.workspace.getConfiguration('gitAIAssistant')
  globalState,  \* context.globalState (extension storage)
  env,          \* process.env, the variables the adapters write
  inv,          \* per invocation of the generate command: its locals
  shown,        \* messages shown with vscode.window.show*Message
  transport,    \* calls made to a provider (generateText / sendRequest)
  documents,    \* documents opened with vscode.workspace.openTextDocument
  commands,     \* vscode.commands.executeCommand requests
  fx            \* a direct caller of one function: its arguments, result

vars == <<build, config, globalState, env, inv, shown, transport,
          documents, commands, fx>>

----------------------------------------------------------------------------
(* JavaScript values and string functions                                  *)

\* The value undefined and the value null, apart from every string.
Undefined == "<undefined>"
Null == "<null>"

\* !v for a string-or-absent value: undefined, null and '' are falsy.
Falsy(v) == v = Undefined \/ v = Null \/ v = ""

\* `${v}` for a string-or-absent value
Interp(v) == IF v = Undefined THEN "undefined" ELSE IF v = Null THEN "null" ELSE v

\* a || b
OrElse(a, b) == IF Falsy(a) THEN b ELSE a

\* config.get(key, defaultValue): the default replaces an unset key only.
GetOr(v, d) == IF v = Undefined THEN d ELSE v

\* A numeric setting: absent, or a number.
Absent == [set |-> FALSE]
Num(n) == [set |-> TRUE, n |-> n]

\* config.get<number>(key, defaultValue)
GetNumOr(v, d) == IF v.set THEN v.n ELSE d

\* A function call that returns v, or that throws new Error(m).
Returns(v) == [ok |-> TRUE, value |-> v]
Throws(m) == [ok |-> FALSE, message |-> m]

\* String.prototype.includes
Contains(s, t) ==
  \E k \in 1..(Len(s) - Len(t) + 1) : SubSeq(s, k, k + Len(t) - 1) = t

StartsWith(s, t) == Len(t) <= Len(s) /\ SubSeq(s, 1, Len(t)) = t

EndsWith(s, t) ==
  Len(t) <= Len(s) /\ SubSeq(s, Len(s) - Len(t) + 1, Len(s)) = t

IsWhiteSpace(c) == c \in {" ", "\n", "\t"}

RECURSIVE TrimStart(_)
TrimStart(s) ==
  IF s = "" THEN ""
  ELSE IF IsWhiteSpace(SubSeq(s, 1, 1)) THEN TrimStart(SubSeq(s, 2, Len(s)))
  ELSE s

RECURSIVE TrimEnd(_)
TrimEnd(s) ==
  IF s = "" THEN ""
  ELSE IF IsWhiteSpace(SubSeq(s, Len(s), Len(s)))
       THEN TrimEnd(SubSeq(s, 1, Len(s) - 1))
  ELSE s

\* String.prototype.trim
Trim(s) == TrimEnd(TrimStart(s))

Digit(d) == SubSeq("0123456789", d + 1, d + 1)

\* `${n}` for an integer n: its sign and decimal digits.
RECURSIVE DecStr(_)
DecStr(n) ==
  IF n < 0 THEN "-" \o DecStr(0 - n)
  ELSE IF n < 10 THEN Digit(n) ELSE DecStr(n \div 10) \o Digit(n % 10)

\* Array.prototype.join("\n")
RECURSIVE JoinLines(_)
JoinLines(parts) ==
  IF Len(parts) = 0 THEN ""
  ELSE IF Len(parts) = 1 THEN parts[1]
  ELSE parts[1] \o "\n" \o JoinLines(Tail(parts))

----------------------------------------------------------------------------
(* Prompt and template                                                     *)

\* The fence line of the prompt: three backquotes. (The literal holds a
\* closing quote mark after them, which SubSeq leaves out.)
FENCE == SubSeq("```'", 1, 3)

\* createPrompt with a bug: the template is put where the diff belongs and
\* the diff where the template belongs.
createPromptSwapped(gitDiff, template) ==
  JoinLines(<<
    "I need you to create a pull request description based on the following git diff.",
    "Use the template provided below to structure your response.",
    "",
    "GIT DIFF:",
    FENCE,
    template,
    FENCE,
    "",
    "TEMPLATE:",
    FENCE,
    gitDiff,
    FENCE,
    "",
    "Please fill in the template with details about the changes in the git diff. Be concise and clear about the purpose of the changes, what was modified, and any important details reviewers should know.",
    "",
    "Don't include the template markers (like \"## Summary\") in places they don't belong, and maintain the overall structure of the template. Complete sentences are preferred."
  >>)

\* BaseAIService.createPrompt (AIService.createPrompt and
\* CopilotAIService.createPrompt are the same text).
createPrompt(gitDiff, template) ==
  JoinLines(<<
    "I need you to create a pull request description based on the following git diff.",
    "Use the template provided below to structure your response.",
    "",
    "GIT DIFF:",
    FENCE,
    gitDiff,
    FENCE,
    "",
    "TEMPLATE:",
    FENCE,
    template,
    FENCE,
    "",
    "Please fill in the template with details about the changes in the git diff. Be concise and clear about the purpose of the changes, what was modified, and any important details reviewers should know.",
    "",
    "Don't include the template markers (like \"## Summary\") in places they don't belong, and maintain the overall structure of the template. Complete sentences are preferred."
  >>)

DEFAULT_TEMPLATE ==
  JoinLines(<<
    "## Description",
    "Briefly describe the changes you've made and the problem it solves.",
    "",
    "## Related Issues",
    "List any related issues this PR resolves or is connected to.",
    "",
    "## Changes",
    "Describe the key changes in this PR.",
    "",
    "## Testing",
    "Explain how you tested these changes.",
    "",
    "## Screenshots",
    "If applicable, add screenshots to help explain your changes.",
    "",
    "## Additional Notes",
    "Add any other context about the PR here."
  >>)

\* TemplateManager.getCustomTemplate
getCustomTemplate(gs) == gs.prTemplate

\* saveCustomTemplate with a bug: a stored template is not replaced.
saveCustomTemplateKeepsStored(gs, template) ==
  IF gs.prTemplate = Undefined THEN [gs EXCEPT !.prTemplate = template] ELSE gs

\* TemplateManager.saveCustomTemplate: globalState.update('prTemplate', t)
saveCustomTemplate(gs, template) == [gs EXCEPT !.prTemplate = template]

\* TemplateManager.deleteCustomTemplate:
\* globalState.update('prTemplate', undefined)
deleteCustomTemplate(gs) == [gs EXCEPT !.prTemplate = Undefined]

\* getTemplate with a bug: with the source 'custom' the stored value is
\* returned whatever it is.
getTemplateTrustsStore(cfg, gs) ==
  IF GetOr(cfg.templateSource, "default") = "custom"
  THEN getCustomTemplate(gs)
  ELSE DEFAULT_TEMPLATE

\* TemplateManager.getTemplate
getTemplate(cfg, gs) ==
  LET templateSource == GetOr(cfg.templateSource, "default")
      customTemplate == getCustomTemplate(gs)
  IN  IF templateSource = "custom" /\ ~Falsy(customTemplate)
      THEN customTemplate
      ELSE DEFAULT_TEMPLATE

----------------------------------------------------------------------------
(* Diff reader                                                             *)

\* What execAsync(command) does: resolves with stdout or rejects with an
\* error that has a message.
GitOk(out) == [ok |-> TRUE, stdout |-> out, message |-> ""]
GitFail == [ok |-> FALSE, stdout |-> "", message |-> "git command failed"]

\* OrEmpty with a bug: the message of the failure is taken for the output.
OrEmptyKeepsMessage(r) == IF r.ok THEN r.stdout ELSE r.message

\* x.catch(err => '') around getUnstagedDiff / getStagedDiff / getCommitDiff
OrEmpty(r) == IF r.ok THEN r.stdout ELSE ""

\* The branch getDiff takes: `if (diffSource === 'commits') ... else ...`
PathTaken(diffSource) == IF diffSource = "commits" THEN "commits" ELSE "staged"

\* getDiff with a bug: the combined output is not trimmed before it is
\* tested, so that white space counts as a diff.
getDiffKeepsBlank(diffSource, commitCount, git) ==
  LET diff == IF diffSource = "commits"
              THEN OrEmpty(git.commit)
              ELSE OrEmpty(git.unstaged) \o OrEmpty(git.staged)
  IN  IF diff # "" THEN diff ELSE Null

\* GitDiffReader.getDiff: git gives the outcome of each git command.
getDiff(diffSource, commitCount, git) ==
  LET diff == IF PathTaken(diffSource) = "commits"
              THEN OrEmpty(git.commit)
              ELSE OrEmpty(git.unstaged) \o OrEmpty(git.staged)
  IN  IF Trim(diff) # "" THEN diff ELSE Null

\* GitDiffReader.getDiff of the first revision (part_010:11-18): one
\* `git diff`, and a failure is thrown again under a prefix.
getDiffFirst(git) ==
  IF git.unstaged.ok THEN Returns(git.unstaged.stdout)
  ELSE Throws("Failed to get git diff: " \o git.unstaged.message)

----------------------------------------------------------------------------
(* Adapters and their factory                                              *)

NoAdapter == [kind |-> "none"]

\* AIService.CLAUDE_MODELS (src/src/aiService.ts:13)
AIService_CLAUDE_MODELS ==
  << "anthropic.claude-3-5-sonnet-20241022-v2:0",
     "anthropic.claude-3-sonnet-20240229-v1:0",
     "anthropic.claude-3-haiku-20240307-v1:0",
     "anthropic.claude-instant-v1",
     "anthropic.claude-v2",
     "anthropic.claude-v2:1" >>

\* AWSBedrockService.CLAUDE_MODELS (src/src/aiService.ts:174)
AWSBedrock_CLAUDE_MODELS == << "anthropic.claude-3-5-sonnet-20241022-v2:0" >>

\* GoogleGeminiService.SUPPORTED_MODELS
SUPPORTED_MODELS ==
  {"gemini-2.0-flash-exp", "gemini-1.5-flash", "gemini-1.5-flash-8b"}

\* NewAIService with a bug: the candidate list is built in another order.
NewAIServiceReordered(region, accessKeyId, secretAccessKey) ==
  [kind |-> "AIService", region |-> region, accessKeyId |-> accessKeyId,
   secretAccessKey |-> secretAccessKey,
   models |-> Tail(AIService_CLAUDE_MODELS)
                \o <<Head(AIService_CLAUDE_MODELS)>>]

\* new AIService(region, accessKeyId, secretAccessKey)
NewAIService(region, accessKeyId, secretAccessKey) ==
  [kind |-> "AIService", region |-> region, accessKeyId |-> accessKeyId,
   secretAccessKey |-> secretAccessKey, models |-> AIService_CLAUDE_MODELS]

\* new AWSBedrockService(region, accessKeyId, secretAccessKey, sessionToken)
NewAWSBedrockService(region, accessKeyId, secretAccessKey, sessionToken) ==
  [kind |-> "AWSBedrockService", region |-> region,
   accessKeyId |-> accessKeyId, secretAccessKey |-> secretAccessKey,
   sessionToken |-> sessionToken, models |-> AWSBedrock_CLAUDE_MODELS]

\* NewGoogleGeminiService with a bug: the model id is not validated.
NewGoogleGeminiServiceUnchecked(apiKey, modelId) ==
  [kind |-> "GoogleGeminiService", apiKey |-> apiKey,
   modelId |-> GetOr(modelId, "gemini-1.5-flash")]

\* new GoogleGeminiService(apiKey, modelId = 'gemini-1.5-flash')
NewGoogleGeminiService(apiKey, modelId) ==
  LET given == GetOr(modelId, "gemini-1.5-flash")
  IN  [kind |-> "GoogleGeminiService", apiKey |-> apiKey,
       modelId |-> IF given \in SUPPORTED_MODELS THEN given
                   ELSE "gemini-1.5-flash"]

\* new CopilotAIService(model)
NewCopilotAIService(model) == [kind |-> "CopilotAIService", model |-> model]

\* createService with a bug: an unknown selector gets the AWS adapter.
createServiceDefaults(provider, cfg) ==
  IF provider = "google-gemini"
  THEN Returns(NewGoogleGeminiService(cfg.apiKey, cfg.modelId))
  ELSE Returns(NewAWSBedrockService(cfg.region, cfg.accessKeyId,
                                    cfg.secretAccessKey, cfg.sessionToken))

\* AIServiceFactory.createService(provider, config)
createService(provider, cfg) ==
  CASE provider = "aws-bedrock" ->
         Returns(NewAWSBedrockService(cfg.region, cfg.accessKeyId,
                                      cfg.secretAccessKey, cfg.sessionToken))
    [] provider = "google-gemini" ->
         Returns(NewGoogleGeminiService(cfg.apiKey, cfg.modelId))
    [] OTHER -> Throws("Unsupported AI provider: " \o Interp(provider))

\* let lastError: Error | null
NoError == [null |-> TRUE]
ErrorOf(m) == [null |-> FALSE, message |-> m]

\* `${lastError?.message}`
LastErrorMessage(e) == IF e.null THEN "undefined" ELSE e.message

----------------------------------------------------------------------------
(* Inputs                                                                  *)

Revisions == {"legacy", "factory", "copilot"}
Invocations == {"i1", "i2"}

\* Largest small commit count tried (besides the form's maximum).
MaxCommitCount == 2
\* <input type="number" id="commit-count" min="1" max="20">
UI_MAX_COMMITS == 20
\* Most fragments one streamed response carries.
MaxFragments == 2

DiffSources == {Undefined, "staged", "commits", "branch"}
CommitCounts ==
  {Absent} \cup {Num(n) : n \in (1..MaxCommitCount) \cup {UI_MAX_COMMITS}}
Selectors == {Undefined, "", "aws-bedrock", "google-gemini", "unknown-backend"}
AccessKeyIds == {Undefined, "AKIA1"}
SecretKeys == {Undefined, "secret1"}
SessionTokens == {Undefined, "token1"}
ApiKeys == {Undefined, "gkey1"}
GeminiModels == {Undefined, "gemini-2.0-flash-exp", "gemini-pro"}
CopilotModelIds == {Undefined, "", "gpt-4o"}
TemplateSources == {Undefined, "custom"}
CustomTemplates == {Undefined, "## Summary\n\n## Changes"}

\* stdout of a git command
GitStdouts == {"", " \n", "diff --git a/x b/x\n+line\n"}
GitOutcomes == {GitFail} \cup {GitOk(o) : o \in GitStdouts}

\* What a provider call can give: a text, or an error with a message.
ProviderTexts == {"", "## Summary\nAdds a line\n"}
ProviderErrors == {"Model not available", "Access denied"}

\* Fragments of a streamed Copilot response
Fragments == {" ", "ab", "c"}

\* vscode.LanguageModelChat handles the host can offer
CopilotModels == {[id |-> "gpt-4o", name |-> "GPT-4o"],
                  [id |-> "o1", name |-> "o1"]}

\* Errors of the vscode.lm API: a LanguageModelError with a code, or another
\* Error.
LmErrors ==
  {[lm |-> TRUE, code |-> c, message |-> "lm: " \o c] :
      c \in {"NotFound", "Blocked", "NoPermissions", "Unknown"}}
  \cup {[lm |-> FALSE, code |-> "", message |-> "network down"]}

\* What opening or showing a document can throw.
HostErrors == {"cannot open document"}

UnsetConfig ==
  [diffSource |-> Undefined, commitCount |-> Absent,
   templateSource |-> Undefined, modelProvider |-> Undefined,
   awsAccessKeyId |-> Undefined, awsSecretAccessKey |-> Undefined,
   awsRegion |-> Undefined, awsSessionToken |-> Undefined,
   googleApiKey |-> Undefined, googleGeminiModel |-> Undefined,
   copilotModelId |-> Undefined]

\* The settings each revision of the command reads; the others stay unset.
LegacyConfigs ==
  {[UnsetConfig EXCEPT !.templateSource = ts, !.awsAccessKeyId = ak,
                       !.awsSecretAccessKey = sk, !.awsSessionToken = st] :
     ts \in TemplateSources, ak \in AccessKeyIds, sk \in SecretKeys,
     st \in SessionTokens}

DiffConfigs ==
  {[UnsetConfig EXCEPT !.diffSource = ds, !.commitCount = cc,
                       !.templateSource = ts] :
     ds \in DiffSources, cc \in CommitCounts, ts \in TemplateSources}

FactoryConfigs ==
  {[c EXCEPT !.modelProvider = mp, !.awsAccessKeyId = ak,
             !.awsSecretAccessKey = sk, !.awsSessionToken = st] :
     c \in DiffConfigs, mp \in {Undefined, "", "aws-bedrock"},
     ak \in AccessKeyIds, sk \in SecretKeys, st \in SessionTokens}
  \cup
  {[c EXCEPT !.modelProvider = "google-gemini", !.googleApiKey = k,
             !.googleGeminiModel = m] :
     c \in DiffConfigs, k \in ApiKeys, m \in GeminiModels}
  \cup
  {[c EXCEPT !.modelProvider = "unknown-backend"] : c \in DiffConfigs}

CopilotConfigs ==
  {[c EXCEPT !.copilotModelId = m] : c \in DiffConfigs, m \in CopilotModelIds}

ConfigsOf(b) ==
  CASE b = "legacy" -> LegacyConfigs
    [] b = "factory" -> FactoryConfigs
    [] b = "copilot" -> CopilotConfigs

----------------------------------------------------------------------------
(* State                                                                   *)

NoCall == [idx |-> 0, req |-> 0]
NoOutcome == [ok |-> FALSE, message |-> Undefined]

\* An invocation that has not been triggered.
FreshInvocation(pc) ==
  [pc |-> pc, trace |-> <<>>, diffSource |-> Undefined,
   commitCount |-> 0, diff |-> Undefined, template |-> Undefined,
   selector |-> Undefined, adapter |-> NoAdapter, call |-> NoCall,
   outcome |-> NoOutcome, offered |-> FALSE]

UnsetEnv ==
  [AWS_ACCESS_KEY_ID |-> Undefined, AWS_SECRET_ACCESS_KEY |-> Undefined,
   AWS_REGION |-> Undefined, AWS_SESSION_TOKEN |-> Undefined,
   GOOGLE_GENERATIVE_AI_API_KEY |-> Undefined]

NoFactoryCall == [pc |-> "unused"]

\* The extension is activated and the command has not been invoked yet.
Init ==
  /\ build \in Revisions
  /\ config \in ConfigsOf(build)
  /\ globalState \in {[prTemplate |-> t] : t \in CustomTemplates}
  /\ env = UnsetEnv
  /\ inv = [i \in Invocations |->
              FreshInvocation(IF i = "i1" THEN "idle" ELSE "off")]
  /\ shown = <<>>
  /\ transport = <<>>
  /\ documents = <<>>
  /\ commands = <<>>
  /\ fx = NoFactoryCall

----------------------------------------------------------------------------
(* Messages                                                                *)

\* vscode.window.showInformationMessage / showErrorMessage, by invocation i
Show(i, level, text, items) ==
  shown' = Append(shown, [by |-> i, level |-> level, text |-> text,
                          items |-> items])

\* NoChangesMessage with a bug: the selection mode is not looked at.
NoChangesMessageIgnoresMode(b, diffSource, commitCount) ==
  "No staged changes detected. Make sure you have staged changes using \"git add\" command."

\* The message of generatePRCommand when getDiff gave nothing
\* (extension.ts:182-187, part_002:388-393; extension.ts:1663 for legacy).
NoChangesMessage(b, diffSource, commitCount) ==
  IF b = "legacy"
  THEN "No changes detected. Make sure you have staged changes."
  ELSE IF diffSource = "staged"
  THEN "No staged changes detected. Make sure you have staged changes using \"git add\" command."
  ELSE "No changes found in the last " \o DecStr(commitCount)
         \o " commit(s). Try increasing the commit count."

AWS_NOT_CONFIGURED ==
  "AWS credentials not configured. Please use the Configure AWS Credentials command first."
GOOGLE_NOT_CONFIGURED ==
  "Google API key not configured. Please use the Configure Google Credentials command first."
NO_MODEL_SELECTED ==
  "No Copilot model selected. Please configure a model in the extension settings."
MODEL_NOT_AVAILABLE ==
  "Selected Copilot model not available. Please ensure you have an active GitHub Copilot subscription and select a valid model."
GENERATED_OK == "PR Description generated successfully!"
GENERATE_FAILED == "Failed to generate PR description."
CONFIGURE_COMMAND == "git-ai-assistant.configureProvider"

----------------------------------------------------------------------------
(* The generate command                                                    *)

Others(i) == UNCHANGED <<build, config, globalState, fx>>

\* NoDiff with a bug: only the empty string is taken for "no diff".
NoDiffMissesNull(diff) == diff = ""

\* `if (!diff)` after getDiff
NoDiff(diff) == Falsy(diff)

\* AwsIncomplete with a bug: the secret key is not looked at.
AwsIncompleteChecksIdOnly(accessKeyId, secretAccessKey) == Falsy(accessKeyId)

\* `if (!accessKeyId || !secretAccessKey)`
AwsIncomplete(accessKeyId, secretAccessKey) ==
  Falsy(accessKeyId) \/ Falsy(secretAccessKey)

\* Recognized with a bug: every selector is let through to the last branch.
RecognizedAny(modelProvider) == TRUE

\* The selectors the factory revision of the command has a branch for
Recognized(modelProvider) == modelProvider \in {"aws-bedrock", "google-gemini"}

\* generatePRCommand from its start to `await gitDiffReader.getDiff(...)`.
\* The legacy revision calls getDiff() and the parameter defaults apply.
GenerateTriggered(i) ==
  /\ inv[i].pc = "idle"
  /\ inv' = [inv EXCEPT ![i] =
       [@ EXCEPT !.pc = "awaitDiff",
                 !.diffSource = IF build = "legacy" THEN "staged"
                                ELSE GetOr(config.diffSource, "staged"),
                 !.commitCount = IF build = "legacy" THEN 1
                                 ELSE GetNumOr(config.commitCount, 1)]]
  /\ UNCHANGED <<env, shown, transport, documents, commands>>
  /\ Others(i)

\* TemplateRequested with a bug: the progress callback is started right
\* away, the template is not loaded.
TemplateSkipped(r, diff) ==
  [r EXCEPT !.pc = "progress", !.diff = diff,
            !.trace = Append(@, "DiffFetched")]

\* There is a diff: the workspace folder is looked up and
\* templateManager.getTemplate(...) is called; its body runs at once.
TemplateRequested(r, diff) ==
  [r EXCEPT !.pc = "awaitTemplate", !.diff = diff,
            !.template = getTemplate(config, globalState),
            !.trace = Append(@, "DiffFetched")]

\* getDiff has resolved: `if (!diff) { ...; return; }`, else up to
\* `await templateManager.getTemplate(...)`, whose body has run.
DiffReturned(i) ==
  /\ inv[i].pc = "awaitDiff"
  /\ \E git \in [unstaged : GitOutcomes, staged : GitOutcomes,
                 commit : GitOutcomes] :
       LET diff == getDiff(inv[i].diffSource, inv[i].commitCount, git)
       IN  IF NoDiff(diff)
           THEN /\ Show(i, "info",
                        NoChangesMessage(build, inv[i].diffSource,
                                         inv[i].commitCount), <<>>)
                /\ inv' = [inv EXCEPT ![i] =
                     [@ EXCEPT !.pc = "done", !.diff = diff,
                               !.trace = Append(@, "NoChanges")]]
           ELSE /\ inv' = [inv EXCEPT ![i] = TemplateRequested(@, diff)]
                /\ UNCHANGED shown
  /\ UNCHANGED <<env, transport, documents, commands>>
  /\ Others(i)

\* getTemplate has resolved; vscode.window.withProgress(...) is called and
\* the handler returns, leaving the progress callback to run.
TemplateReturned(i) ==
  /\ inv[i].pc = "awaitTemplate"
  /\ inv' = [inv EXCEPT ![i] =
       [@ EXCEPT !.pc = "progress", !.trace = Append(@, "TemplateLoaded")]]
  /\ UNCHANGED <<env, shown, transport, documents, commands>>
  /\ Others(i)

----------------------------------------------------------------------------
(* generatePRDescription of each adapter, up to its first await            *)

\* AIService.generatePRDescription: process.env assignments
AIServiceSetEnv(a, e) ==
  [e EXCEPT !.AWS_ACCESS_KEY_ID = a.accessKeyId,
            !.AWS_SECRET_ACCESS_KEY = a.secretAccessKey,
            !.AWS_REGION = a.region]

\* AWSBedrockService.generatePRDescription: process.env assignments
AWSBedrockSetEnv(a, e) ==
  [e EXCEPT !.AWS_ACCESS_KEY_ID = a.accessKeyId,
            !.AWS_SECRET_ACCESS_KEY = a.secretAccessKey,
            !.AWS_REGION = a.region,
            !.AWS_SESSION_TOKEN = IF Falsy(a.sessionToken) THEN @
                                  ELSE a.sessionToken]

\* GoogleGeminiService.generatePRDescription: process.env assignment
GeminiSetEnv(a, e) == [e EXCEPT !.GOOGLE_GENERATIVE_AI_API_KEY = a.apiKey]

SetEnv(a, e) ==
  CASE a.kind = "AIService" -> AIServiceSetEnv(a, e)
    [] a.kind = "AWSBedrockService" -> AWSBedrockSetEnv(a, e)
    [] a.kind = "GoogleGeminiService" -> GeminiSetEnv(a, e)
    [] a.kind = "CopilotAIService" -> e

\* The locals of a generatePRDescription call when it reaches its first
\* await: the prompt, the loop position and lastError (candidate loops), the
\* accumulated result and the cancellation token source (Copilot).
FirstCall(a, diff, template) ==
  [idx |-> 1, lastError |-> NoError, prompt |-> createPrompt(diff, template),
   result |-> "", chunks |-> 0, tokenSource |-> a.kind = "CopilotAIService",
   req |-> 0]

\* bedrock(modelId) / google(this.modelId) / this.model
ModelAt(a, idx) ==
  CASE a.kind \in {"AIService", "AWSBedrockService"} -> a.models[idx]
    [] a.kind = "GoogleGeminiService" -> a.modelId
    [] a.kind = "CopilotAIService" -> a.model.id

\* A provider call that has been issued and has not settled.
Request(i, a, idx, e) ==
  [by |-> i, adapter |-> a.kind, model |-> ModelAt(a, idx), env |-> e,
   state |-> "pending", payload |-> "", fragments |-> <<>>]

\* The await a call of generatePRDescription stops at first.
AwaitOf(a) == IF a.kind = "CopilotAIService" THEN "awaitSend"
              ELSE "awaitProvider"

\* `aiService.generatePRDescription(diff, template)` is called on adapter a
\* by invocation i, whose record is r so far.
BeginGenerate(i, a, r) ==
  /\ env' = SetEnv(a, env)
  /\ transport' = Append(transport, Request(i, a, 1, SetEnv(a, env)))
  /\ inv' = [inv EXCEPT ![i] =
       [r EXCEPT !.pc = AwaitOf(a), !.adapter = a,
                 !.call = [FirstCall(a, r.diff, r.template)
                             EXCEPT !.req = Len(transport) + 1],
                 !.trace = r.trace \o <<"AdapterConstructed", "Generating">>]]

\* The required settings of the selected backend are present.
Validated(r) == [r EXCEPT !.trace = Append(r.trace, "ConfigValidated")]

\* AfterFailure with a bug: the progress callback is run again.
AfterFailureRetries(r) ==
  [r EXCEPT !.pc = "progress", !.trace = Append(r.trace, "Failed")]

\* The record of an invocation that failed: `return` after the message, or
\* the end of the catch block; nothing of the command runs after it.
AfterFailure(r) ==
  [r EXCEPT !.pc = "done", !.trace = Append(r.trace, "Failed")]

\* FailWith with a bug: the failure is dropped, no message is shown.
FailSilently(i, r, text, items) ==
  /\ UNCHANGED shown
  /\ inv' = [inv EXCEPT ![i] =
       [r EXCEPT !.pc = "done", !.trace = Append(r.trace, "Failed")]]

\* The command stops with one error message.
FailWith(i, r, text, items) ==
  /\ Show(i, "error", text, items)
  /\ inv' = [inv EXCEPT ![i] =
       [AfterFailure(r) EXCEPT !.offered = items # <<>>]]

----------------------------------------------------------------------------
(* The progress callback of each revision, up to its first await           *)

\* extension.ts:1677-1696 (legacy): AWS settings, AIService
ProgressLegacy(i) ==
  /\ build = "legacy"
  /\ inv[i].pc = "progress"
  /\ LET accessKeyId == OrElse(config.awsAccessKeyId, "")
         secretAccessKey == OrElse(config.awsSecretAccessKey, "")
         region == OrElse(config.awsRegion, "us-east-1")
     IN  IF AwsIncomplete(accessKeyId, secretAccessKey)
         THEN /\ FailWith(i, inv[i], AWS_NOT_CONFIGURED, <<>>)
              /\ UNCHANGED <<env, transport>>
         ELSE /\ BeginGenerate(i, NewAIService(region, accessKeyId,
                                               secretAccessKey),
                               Validated(inv[i]))
              /\ UNCHANGED shown
  /\ UNCHANGED <<documents, commands>>
  /\ Others(i)

\* part_002:414-466 (factory): the provider selector and its settings
ProgressFactory(i) ==
  /\ build = "factory"
  /\ inv[i].pc = "progress"
  /\ LET modelProvider == OrElse(config.modelProvider, "aws-bedrock")
         r == [inv[i] EXCEPT !.selector = modelProvider]
         accessKeyId == OrElse(config.awsAccessKeyId, "")
         secretAccessKey == OrElse(config.awsSecretAccessKey, "")
         region == OrElse(config.awsRegion, "us-east-1")
         sessionToken == OrElse(config.awsSessionToken, "")
         apiKey == OrElse(config.googleApiKey, "")
         modelId == OrElse(config.googleGeminiModel, "gemini-1.5-flash")
         made == IF modelProvider = "aws-bedrock"
                 THEN createService("aws-bedrock",
                        [region |-> region, accessKeyId |-> accessKeyId,
                         secretAccessKey |-> secretAccessKey,
                         sessionToken |-> sessionToken])
                 ELSE createService("google-gemini",
                        [apiKey |-> apiKey, modelId |-> modelId])
     IN  CASE modelProvider = "aws-bedrock"
                 /\ AwsIncomplete(accessKeyId, secretAccessKey) ->
                /\ FailWith(i, r, AWS_NOT_CONFIGURED, <<>>)
                /\ UNCHANGED <<env, transport>>
           [] modelProvider = "google-gemini" /\ Falsy(apiKey) ->
                /\ FailWith(i, r, GOOGLE_NOT_CONFIGURED, <<>>)
                /\ UNCHANGED <<env, transport>>
           [] ~Recognized(modelProvider) ->
                /\ FailWith(i, r, "Unknown model provider: "
                                    \o Interp(modelProvider), <<>>)
                /\ UNCHANGED <<env, transport>>
           [] OTHER ->
                /\ BeginGenerate(i, made.value, Validated(r))
                /\ UNCHANGED shown
  /\ UNCHANGED <<documents, commands>>
  /\ Others(i)

\* extension.ts:208-231 (copilot): the selected model id, then
\* `await CopilotAIService.getModelById(selectedModelId)`
ProgressCopilot(i) ==
  /\ build = "copilot"
  /\ inv[i].pc = "progress"
  /\ LET selectedModelId == config.copilotModelId
         r == [inv[i] EXCEPT !.selector = selectedModelId]
     IN  IF Falsy(selectedModelId)
         THEN FailWith(i, r, NO_MODEL_SELECTED, <<"Configure">>)
         ELSE /\ inv' = [inv EXCEPT ![i] =
                   [Validated(r) EXCEPT !.pc = "awaitModel"]]
              /\ UNCHANGED shown
  /\ UNCHANGED <<env, transport, documents, commands>>
  /\ Others(i)

\* What vscode.lm.selectChatModels({vendor: 'copilot'}) gives
LmOutcomes ==
  {[ok |-> FALSE, models |-> {}]}
  \cup {[ok |-> TRUE, models |-> ms] : ms \in SUBSET CopilotModels}

\* getModelById with a bug: a handle is made up for an id that the host
\* does not offer, or when the enumeration failed.
getModelByIdUnresolved(lm, modelId) ==
  IF lm.ok /\ \E m \in lm.models : m.id = modelId
  THEN CHOOSE m \in lm.models : m.id = modelId
  ELSE [id |-> modelId, name |-> Undefined]

\* CopilotAIService.getModelById
getModelById(lm, modelId) ==
  IF lm.ok /\ \E m \in lm.models : m.id = modelId
  THEN CHOOSE m \in lm.models : m.id = modelId
  ELSE [id |-> Undefined, name |-> Undefined]

\* extension.ts:231-250 (copilot): getModelById has resolved
ModelResolved(i) ==
  /\ inv[i].pc = "awaitModel"
  /\ \E lm \in LmOutcomes :
       LET model == getModelById(lm, inv[i].selector)
       IN  IF model.id = Undefined
           THEN /\ FailWith(i, inv[i], MODEL_NOT_AVAILABLE, <<"Configure">>)
                /\ UNCHANGED <<env, transport>>
           ELSE /\ BeginGenerate(i, NewCopilotAIService(model), inv[i])
                /\ UNCHANGED shown
  /\ UNCHANGED <<documents, commands>>
  /\ Others(i)

----------------------------------------------------------------------------
(* After `await aiService.generatePRDescription(diff, template)`           *)

\* The provider request of invocation i settles.
Settle(i, state, payload) ==
  transport' = [transport EXCEPT ![inv[i].call.req] =
                  [@ EXCEPT !.state = state, !.payload = payload]]

\* CommandError with a bug: the message of the caught error is left out.
CommandErrorDropsCause(message) == "Error generating PR description"

\* catch (error) { showErrorMessage(`Error generating PR description:
\* ${(error as Error).message}`) } in the progress callback
CommandError(message) == "Error generating PR description: " \o message

\* extension.ts:250-267: the adapter call of invocation i, whose record is r,
\* has returned or thrown (outcome).
AfterGenerate(i, r, outcome) ==
  IF outcome.ok /\ ~Falsy(outcome.value)
  THEN /\ documents' = Append(documents,
            [by |-> i, content |-> outcome.value, language |-> "markdown",
             state |-> "requested"])
       /\ inv' = [inv EXCEPT ![i] =
            [r EXCEPT !.pc = "awaitOpen", !.outcome = outcome]]
       /\ UNCHANGED shown
  ELSE /\ FailWith(i, [r EXCEPT !.outcome = outcome],
                   IF outcome.ok THEN GENERATE_FAILED
                   ELSE CommandError(outcome.message), <<>>)
       /\ UNCHANGED documents

\* The document of invocation i in documents
DocOf(i) == CHOOSE k \in 1..Len(documents) : documents[k].by = i

\* openTextDocument has settled; then `await showTextDocument(document)`
DocumentOpened(i) ==
  /\ inv[i].pc = "awaitOpen"
  /\ \/ /\ documents' = [documents EXCEPT ![DocOf(i)].state = "open"]
        /\ inv' = [inv EXCEPT ![i].pc = "awaitShow"]
        /\ UNCHANGED shown
     \/ \E e \in HostErrors :
          /\ documents' = [documents EXCEPT ![DocOf(i)].state = "failed"]
          /\ FailWith(i, inv[i], CommandError(e), <<>>)
  /\ UNCHANGED <<env, transport, commands>>
  /\ Others(i)

\* showTextDocument has settled; then the success message
DocumentShown(i) ==
  /\ inv[i].pc = "awaitShow"
  /\ \/ /\ documents' = [documents EXCEPT ![DocOf(i)].state = "shown"]
        /\ Show(i, "info", GENERATED_OK, <<>>)
        /\ inv' = [inv EXCEPT ![i] =
             [@ EXCEPT !.pc = "done", !.trace = Append(@, "Succeeded")]]
     \/ \E e \in HostErrors :
          /\ FailWith(i, inv[i], CommandError(e), <<>>)
          /\ UNCHANGED documents
  /\ UNCHANGED <<env, transport, commands>>
  /\ Others(i)

\* .then(selection => { if (selection === 'Configure') executeCommand(...) })
SelectionMade(i) ==
  /\ inv[i].offered
  /\ \E selection \in {"Configure", Undefined} :
       commands' = IF selection = "Configure"
                   THEN Append(commands, [by |-> i, id |-> CONFIGURE_COMMAND])
                   ELSE commands
  /\ inv' = [inv EXCEPT ![i].offered = FALSE]
  /\ UNCHANGED <<env, shown, transport, documents>>
  /\ Others(i)

----------------------------------------------------------------------------
(* The provider answers: the rest of generatePRDescription                 *)

ProviderOutcomes ==
  {[ok |-> TRUE, text |-> t, message |-> ""] : t \in ProviderTexts}
  \cup {[ok |-> FALSE, text |-> "", message |-> m] : m \in ProviderErrors}

\* NextCandidate with a bug: the loop steps over a candidate.
NextCandidateSkips(idx) == idx + 2

\* `for (const modelId of this.CLAUDE_MODELS)`: the position after idx
NextCandidate(idx) == idx + 1

\* Caught with a bug: the first error is kept, later ones are dropped.
CaughtKeepsFirst(lastError, message) ==
  IF lastError.null THEN ErrorOf(message) ELSE lastError

\* catch (error) { lastError = error as Error; }
Caught(lastError, message) == ErrorOf(message)

ALL_FAILED == "Failed to generate PR description with any Claude model: "

\* AIService.generatePRDescription, lines 56-78: the awaited generateText
\* call for candidate call.idx gives o.
CandidateLoop(i, o) ==
  LET a == inv[i].adapter
      c == inv[i].call
      lastError == Caught(c.lastError, o.message)
      next == NextCandidate(c.idx)
  IN  IF o.ok
      THEN /\ Settle(i, "ok", o.text)
           /\ AfterGenerate(i, inv[i], Returns(Trim(o.text)))
           /\ UNCHANGED env
      ELSE IF next <= Len(a.models)
      THEN /\ transport' =
                Append([transport EXCEPT ![c.req] =
                          [@ EXCEPT !.state = "error", !.payload = o.message]],
                       Request(i, a, next, env))
           /\ inv' = [inv EXCEPT ![i].call =
                [c EXCEPT !.idx = next, !.lastError = lastError,
                          !.req = Len(transport) + 1]]
           /\ UNCHANGED <<env, shown, documents>>
      ELSE /\ Settle(i, "error", o.message)
           /\ AfterGenerate(i,
                [inv[i] EXCEPT !.call = [c EXCEPT !.lastError = lastError]],
                Throws(ALL_FAILED \o LastErrorMessage(lastError)))
           /\ UNCHANGED env

AIServiceReturns(i) ==
  /\ inv[i].pc = "awaitProvider"
  /\ inv[i].adapter.kind = "AIService"
  /\ \E o \in ProviderOutcomes : CandidateLoop(i, o)
  /\ UNCHANGED commands
  /\ Others(i)

\* AWSBedrockService.generatePRDescription, lines 219-253: the same loop
AWSBedrockReturns(i) ==
  /\ inv[i].pc = "awaitProvider"
  /\ inv[i].adapter.kind = "AWSBedrockService"
  /\ \E o \in ProviderOutcomes : CandidateLoop(i, o)
  /\ UNCHANGED commands
  /\ Others(i)

GEMINI_FAILED == "Failed to generate PR description with Google Gemini: "

\* GoogleGeminiService.generatePRDescription, lines 301-329
GeminiReturns(i) ==
  /\ inv[i].pc = "awaitProvider"
  /\ inv[i].adapter.kind = "GoogleGeminiService"
  /\ \E o \in ProviderOutcomes :
       IF o.ok
       THEN /\ Settle(i, "ok", o.text)
            /\ AfterGenerate(i, inv[i], Returns(Trim(o.text)))
       ELSE /\ Settle(i, "error", o.message)
            /\ AfterGenerate(i, inv[i], Throws(GEMINI_FAILED \o o.message))
  /\ UNCHANGED <<env, commands>>
  /\ Others(i)

COPILOT_NOT_FOUND ==
  "Copilot model not found. Please ensure you have an active GitHub Copilot subscription."
COPILOT_BLOCKED ==
  "Request was blocked by Copilot. The content may have triggered safety filters."
COPILOT_NO_PERMISSIONS ==
  "No permissions to access Copilot. Please ensure you have an active GitHub Copilot subscription."
COPILOT_FAILED == "Failed to generate PR description with Copilot: "

\* CopilotErrorMessage with a bug: every failure gets the generic message.
CopilotErrorMessageGeneric(e) == COPILOT_FAILED \o e.message

\* CopilotAIService.generatePRDescription, lines 141-156: the catch block
CopilotErrorMessage(e) ==
  IF e.lm /\ e.code = "NotFound" THEN COPILOT_NOT_FOUND
  ELSE IF e.lm /\ e.code = "Blocked" THEN COPILOT_BLOCKED
  ELSE IF e.lm /\ e.code = "NoPermissions" THEN COPILOT_NO_PERMISSIONS
  ELSE COPILOT_FAILED \o e.message

\* `await this.model.sendRequest(...)` has settled
SendReturns(i) ==
  /\ inv[i].pc = "awaitSend"
  /\ \/ /\ Settle(i, "streaming", "")
        /\ inv' = [inv EXCEPT ![i].pc = "streaming"]
        /\ UNCHANGED <<shown, documents>>
     \/ \E e \in LmErrors :
          /\ Settle(i, "error", e.message)
          /\ AfterGenerate(i, inv[i], Throws(CopilotErrorMessage(e)))
  /\ UNCHANGED <<env, commands>>
  /\ Others(i)

\* Accumulate with a bug: the new fragment is put in front.
AccumulatePrepends(result, chunk) == chunk \o result

\* Accumulate with a bug: a fragment equal to the end of the result so far
\* is taken for a repetition and dropped.
AccumulateDeduplicates(result, chunk) ==
  IF EndsWith(result, chunk) THEN result ELSE result \o chunk

\* `result += chunk`
Accumulate(result, chunk) == result \o chunk

\* `for await (const chunk of response.text) { result += chunk; }`: the
\* stream delivers its next fragment.
StreamNext(i) ==
  /\ inv[i].pc = "streaming"
  /\ inv[i].call.chunks < MaxFragments
  /\ \E chunk \in Fragments :
       /\ transport' = [transport EXCEPT ![inv[i].call.req].fragments =
                          Append(@, chunk)]
       /\ inv' = [inv EXCEPT ![i].call =
            [@ EXCEPT !.result = Accumulate(@, chunk), !.chunks = @ + 1]]
  /\ UNCHANGED <<env, shown, documents, commands>>
  /\ Others(i)

\* The stream ends: tokenSource.dispose(); return result.trim();
StreamEnds(i) ==
  /\ inv[i].pc = "streaming"
  /\ Settle(i, "ok", transport[inv[i].call.req].payload)
  /\ AfterGenerate(i,
       [inv[i] EXCEPT !.call = [@ EXCEPT !.tokenSource = FALSE]],
       Returns(Trim(inv[i].call.result)))
  /\ UNCHANGED <<env, commands>>
  /\ Others(i)

\* The stream throws while it is read
StreamFails(i) ==
  /\ inv[i].pc = "streaming"
  /\ \E e \in LmErrors :
       /\ Settle(i, "error", e.message)
       /\ AfterGenerate(i, inv[i], Throws(CopilotErrorMessage(e)))
  /\ UNCHANGED <<env, commands>>
  /\ Others(i)

----------------------------------------------------------------------------
(* Specification of the command                                            *)

Step(i) ==
  \/ GenerateTriggered(i)
  \/ DiffReturned(i)
  \/ TemplateReturned(i)
  \/ ProgressLegacy(i)
  \/ ProgressFactory(i)
  \/ ProgressCopilot(i)
  \/ ModelResolved(i)
  \/ AIServiceReturns(i)
  \/ AWSBedrockReturns(i)
  \/ GeminiReturns(i)
  \/ SendReturns(i)
  \/ StreamNext(i)
  \/ StreamEnds(i)
  \/ StreamFails(i)
  \/ DocumentOpened(i)
  \/ DocumentShown(i)
  \/ SelectionMade(i)

Next == \E i \in Invocations : Step(i)

Spec == Init /\ [][Next]_vars

----------------------------------------------------------------------------
(* A direct caller of the factory, as in the factory's documentation       *)

FactorySelectors == Selectors \cup {"openai"}

FactoryArguments ==
  [region : {Undefined, "us-east-1"}, accessKeyId : AccessKeyIds,
   secretAccessKey : SecretKeys, sessionToken : SessionTokens,
   apiKey : ApiKeys, modelId : GeminiModels]

InitFactory ==
  /\ build = "factory"
  /\ config = UnsetConfig
  /\ globalState = [prTemplate |-> Undefined]
  /\ env = UnsetEnv
  /\ inv = [i \in Invocations |-> FreshInvocation("off")]
  /\ shown = <<>>
  /\ transport = <<>>
  /\ documents = <<>>
  /\ commands = <<>>
  /\ fx \in {[pc |-> "ready", provider |-> p, cfg |-> c,
              result |-> NoOutcome] :
               p \in FactorySelectors, c \in FactoryArguments}

\* AIServiceFactory.createService(provider, config) is called; the
\* constructors assign fields and nothing else.
CallCreateService ==
  /\ fx.pc = "ready"
  /\ fx' = [fx EXCEPT !.pc = "called",
                      !.result = createService(fx.provider, fx.cfg)]
  /\ UNCHANGED <<build, config, globalState, env, inv, shown, transport,
                 documents, commands>>

NextFactory == CallCreateService

SpecFactory == InitFactory /\ [][NextFactory]_vars

----------------------------------------------------------------------------
(* The body of a Bedrock response and the two places that read it          *)

\* responseBody.content: not there, or an array of text blocks
NoContent == [set |-> FALSE, blocks |-> <<>>]
ContentOf(blocks) == [set |-> TRUE, blocks |-> blocks]

\* JSON.parse(response.body.toString()), for the fields the code reads
ResponseBodies ==
  [id : {Undefined, "msg_1"},
   content : {NoContent, ContentOf(<<>>),
              ContentOf(<<[text |-> "## Modern"]>>),
              ContentOf(<<[text |-> ""]>>),
              ContentOf(<<[text |-> "first"], [text |-> "second"]>>)},
   completion : {Undefined, "", "## Legacy"},
   generation : {Undefined}, text : {Undefined}]

\* A JSON string literal (the strings here need no escapes)
Quote(str) == "\"" \o str \o "\""

\* Array.prototype.join(",")
RECURSIVE JoinCommas(_)
JoinCommas(parts) ==
  IF Len(parts) = 0 THEN ""
  ELSE IF Len(parts) = 1 THEN parts[1]
  ELSE parts[1] \o "," \o JoinCommas(Tail(parts))

RECURSIVE BlocksJson(_)
BlocksJson(blocks) ==
  IF blocks = <<>> THEN <<>>
  ELSE <<"{\"text\":" \o Quote(Head(blocks).text) \o "}">>
         \o BlocksJson(Tail(blocks))

\* JSON.stringify(responseBody): the members that are there, in their order
Stringify(body) ==
  LET id == IF body.id = Undefined THEN <<>>
            ELSE <<"\"id\":" \o Quote(body.id)>>
      content == IF body.content.set
                 THEN <<"\"content\":["
                          \o JoinCommas(BlocksJson(body.content.blocks))
                          \o "]">>
                 ELSE <<>>
      completion == IF body.completion = Undefined THEN <<>>
                    ELSE <<"\"completion\":" \o Quote(body.completion)>>
  IN  "{" \o JoinCommas(id \o content \o completion) \o "}"

\* The TypeError of reading a property of undefined (V8's wording)
CannotRead(property) ==
  "Cannot read properties of undefined (reading '" \o property \o "')"

\* responseBody.content[0].text
FirstBlockText(body) ==
  IF ~body.content.set THEN Throws(CannotRead("0"))
  ELSE IF body.content.blocks = <<>> THEN Throws(CannotRead("text"))
  ELSE Returns(body.content.blocks[1].text)

\* part_001:129-140 (the test script): content, else completion, else the
\* serialized body
ExtractInScript(body) ==
  IF body.content.set THEN FirstBlockText(body)
  ELSE IF ~Falsy(body.completion) THEN Returns(body.completion)
  ELSE Returns(Stringify(body))

\* part_009:141-150, AIService.invokeBedrockModel (the extension's adapter):
\* content[0].text for a Claude model, and the catch block throws again
invokeBedrockModel(modelId, body) ==
  IF Contains(modelId, "anthropic.claude")
  THEN FirstBlockText(body)
  ELSE Returns(OrElse(body.generation,
                 OrElse(body.text, OrElse(body.completion, ""))))

\* AIService.CLAUDE_MODELS of part_009:14
SdkAIService_CLAUDE_MODELS == << "anthropic.claude-3-5-sonnet-20241022-v2:0" >>

InitParse ==
  /\ build = "legacy"
  /\ config = UnsetConfig
  /\ globalState = [prTemplate |-> Undefined]
  /\ env = UnsetEnv
  /\ inv = [i \in Invocations |-> FreshInvocation("off")]
  /\ shown = <<>>
  /\ transport = <<>>
  /\ documents = <<>>
  /\ commands = <<>>
  /\ fx \in {[pc |-> "ready", reader |-> r, modelId |-> m, body |-> b,
              result |-> NoOutcome] :
               r \in {"script", "adapter"},
               m \in {SdkAIService_CLAUDE_MODELS[k] :
                        k \in 1..Len(SdkAIService_CLAUDE_MODELS)},
               b \in ResponseBodies}

\* invokeModel has resolved with fx.body and the reader extracts the text.
ResponseParsed ==
  /\ fx.pc = "ready"
  /\ fx' = [fx EXCEPT !.pc = "parsed",
                      !.result = IF fx.reader = "script"
                                 THEN ExtractInScript(fx.body)
                                 ELSE invokeBedrockModel(fx.modelId, fx.body)]
  /\ UNCHANGED <<build, config, globalState, env, inv, shown, transport,
                 documents, commands>>

NextParse == ResponseParsed

SpecParse == InitParse /\ [][NextParse]_vars

----------------------------------------------------------------------------
(* A caller of createPrompt                                                *)

PromptDiffs ==
  {"", " ", "+a", "-b\n+c", "diff --git a/x b/x\n+line\n", FENCE,
   "TEMPLATE:", "GIT DIFF:\n" \o FENCE \o "\nx"}

PromptTemplates ==
  {"", "x", "+a", "## Summary\n\n## Changes", FENCE, "GIT DIFF:",
   "Please fill in the template"}

InitPrompt ==
  /\ build = "factory"
  /\ config = UnsetConfig
  /\ globalState = [prTemplate |-> Undefined]
  /\ env = UnsetEnv
  /\ inv = [i \in Invocations |-> FreshInvocation("off")]
  /\ shown = <<>>
  /\ transport = <<>>
  /\ documents = <<>>
  /\ commands = <<>>
  /\ fx \in {[pc |-> "ready", gitDiff |-> d, template |-> t,
              first |-> Undefined, second |-> Undefined] :
               d \in PromptDiffs, t \in PromptTemplates}

\* `const prompt = this.createPrompt(gitDiff, template)`, and once more
\* with the same arguments
PromptCreated ==
  /\ fx.pc \in {"ready", "once"}
  /\ fx' = IF fx.pc = "ready"
           THEN [fx EXCEPT !.pc = "once",
                           !.first = createPrompt(fx.gitDiff, fx.template)]
           ELSE [fx EXCEPT !.pc = "twice",
                           !.second = createPrompt(fx.gitDiff, fx.template)]
  /\ UNCHANGED <<build, config, globalState, env, inv, shown, transport,
                 documents, commands>>

NextPrompt == PromptCreated

SpecPrompt == InitPrompt /\ [][NextPrompt]_vars

----------------------------------------------------------------------------
(* A user of the template manager                                          *)

\* Most save and delete operations in one run.
MaxTemplateOps == 3

TemplateTexts == {"", "Custom PR Template", "New PR Template"}
AllTemplateSources == {Undefined, "default", "custom", "repository", ""}

NotRead == [read |-> FALSE, value |-> Undefined]
ReadAs(v) == [read |-> TRUE, value |-> v]

InitTemplates ==
  /\ build = "copilot"
  /\ config \in {[UnsetConfig EXCEPT !.templateSource = ts] :
                   ts \in AllTemplateSources}
  /\ globalState \in {[prTemplate |-> t] : t \in CustomTemplates}
  /\ env = UnsetEnv
  /\ inv = [i \in Invocations |-> FreshInvocation("off")]
  /\ shown = <<>>
  /\ transport = <<>>
  /\ documents = <<>>
  /\ commands = <<>>
  /\ fx = [pc |-> "templates", log |-> <<>>, updates |-> <<>>,
           custom |-> NotRead, template |-> NotRead]

TemplatesOthers ==
  UNCHANGED <<build, config, env, inv, shown, transport, documents, commands>>

\* templateManager.saveCustomTemplate(t)
SaveCustomTemplateCalled ==
  /\ fx.pc = "templates"
  /\ Len(fx.log) < MaxTemplateOps
  /\ \E t \in TemplateTexts :
       /\ globalState' = saveCustomTemplate(globalState, t)
       /\ fx' = [fx EXCEPT
            !.log = Append(@, [op |-> "save", value |-> t]),
            !.updates = Append(@, [key |-> "prTemplate", value |-> t]),
            !.custom = NotRead, !.template = NotRead]
  /\ TemplatesOthers

\* templateManager.deleteCustomTemplate()
DeleteCustomTemplateCalled ==
  /\ fx.pc = "templates"
  /\ Len(fx.log) < MaxTemplateOps
  /\ globalState' = deleteCustomTemplate(globalState)
  /\ fx' = [fx EXCEPT
       !.log = Append(@, [op |-> "delete", value |-> Undefined]),
       !.updates = Append(@, [key |-> "prTemplate", value |-> Undefined]),
       !.custom = NotRead, !.template = NotRead]
  /\ TemplatesOthers

\* templateManager.getCustomTemplate()
GetCustomTemplateCalled ==
  /\ fx.pc = "templates"
  /\ ~fx.custom.read
  /\ fx' = [fx EXCEPT !.custom = ReadAs(getCustomTemplate(globalState))]
  /\ UNCHANGED globalState
  /\ TemplatesOthers

\* await templateManager.getTemplate()
GetTemplateCalled ==
  /\ fx.pc = "templates"
  /\ ~fx.template.read
  /\ fx' = [fx EXCEPT !.template = ReadAs(getTemplate(config, globalState))]
  /\ UNCHANGED globalState
  /\ TemplatesOthers

NextTemplates ==
  \/ SaveCustomTemplateCalled
  \/ DeleteCustomTemplateCalled
  \/ GetCustomTemplateCalled
  \/ GetTemplateCalled

SpecTemplates == InitTemplates /\ [][NextTemplates]_vars

----------------------------------------------------------------------------
(* A caller of GitDiffReader.getDiff                                       *)

InitDiff ==
  /\ build = "copilot"
  /\ config = UnsetConfig
  /\ globalState = [prTemplate |-> Undefined]
  /\ env = UnsetEnv
  /\ inv = [i \in Invocations |-> FreshInvocation("off")]
  /\ shown = <<>>
  /\ transport = <<>>
  /\ documents = <<>>
  /\ commands = <<>>
  /\ fx \in {[pc |-> "ready", reader |-> r, diffSource |-> ds,
              commitCount |-> 1, git |-> g, result |-> NoOutcome] :
               r \in {"first", "current"}, ds \in {"staged", "commits"},
               g \in [unstaged : GitOutcomes, staged : GitOutcomes,
                      commit : GitOutcomes]}

\* `await gitDiffReader.getDiff(...)` settles. The first revision takes no
\* arguments; the current one (gitDiffReader.ts:13-72) catches every error.
DiffRead ==
  /\ fx.pc = "ready"
  /\ fx' = [fx EXCEPT !.pc = "read",
                      !.result = IF fx.reader = "first"
                                 THEN getDiffFirst(fx.git)
                                 ELSE Returns(getDiff(fx.diffSource,
                                                fx.commitCount, fx.git))]
  /\ UNCHANGED <<build, config, globalState, env, inv, shown, transport,
                 documents, commands>>

NextDiff == DiffRead

SpecDiff == InitDiff /\ [][NextDiff]_vars

----------------------------------------------------------------------------
(* Two invocations of the factory revision that overlap, and the AWS       *)
(* credentials panel                                                       *)

\* Most saves of the credentials panel in one run.
MaxSaves == 1

\* What the credentials form posts with 'saveCredentials'
SavedCredentials ==
  [accessKeyId : {"AKIA1", "AKIA2"}, secretAccessKey : {"secret1"},
   region : {"us-east-1"}, sessionToken : {"", "token2"}]

\* Settings the overlapping invocations start from: a complete backend.
OverlapConfigs ==
  {[UnsetConfig EXCEPT !.modelProvider = "aws-bedrock",
                       !.awsAccessKeyId = "AKIA1",
                       !.awsSecretAccessKey = "secret1",
                       !.awsSessionToken = st] : st \in SessionTokens}
  \cup {[UnsetConfig EXCEPT !.modelProvider = "google-gemini",
                            !.googleApiKey = "gkey1"]}

\* Both invocations can be triggered; the second one need not wait for the
\* first (the command handler takes no lock).
InitOverlap ==
  /\ build = "factory"
  /\ config \in OverlapConfigs
  /\ globalState = [prTemplate |-> Undefined]
  /\ env = UnsetEnv
  /\ inv = [i \in Invocations |-> FreshInvocation("idle")]
  /\ shown = <<>>
  /\ transport = <<>>
  /\ documents = <<>>
  /\ commands = <<>>
  /\ fx = NoFactoryCall

\* The messages the credentials panel has shown
SavesShown == SelectSeq(shown, LAMBDA m : m.by = "panel")

\* part_002:245-262: the webview posts 'saveCredentials'; the handler updates
\* the four AWS settings and the provider selector, then shows a notice.
SaveCredentials ==
  /\ Len(SavesShown) < MaxSaves
  /\ \E message \in SavedCredentials :
       config' = [config EXCEPT !.awsAccessKeyId = message.accessKeyId,
                                !.awsSecretAccessKey = message.secretAccessKey,
                                !.awsRegion = message.region,
                                !.awsSessionToken = message.sessionToken,
                                !.modelProvider = "aws-bedrock"]
  /\ Show("panel", "info",
          "AWS credentials saved successfully! AWS Bedrock is now your model provider.",
          <<>>)
  /\ UNCHANGED <<build, globalState, env, inv, transport, documents,
                 commands, fx>>

\* The steps of the factory revision of the command
StepFactory(i) ==
  \/ GenerateTriggered(i)
  \/ DiffReturned(i)
  \/ TemplateReturned(i)
  \/ ProgressFactory(i)
  \/ AWSBedrockReturns(i)
  \/ GeminiReturns(i)
  \/ DocumentOpened(i)
  \/ DocumentShown(i)

NextOverlap == SaveCredentials \/ \E i \in Invocations : StepFactory(i)

SpecOverlap == InitOverlap /\ [][NextOverlap]_vars

----------------------------------------------------------------------------
(* Properties of the candidate loop                                        *)

\* The provider calls invocation i has made, in the order it made them
CallsOf(i) == SelectSeq(transport, LAMBDA c : c.by = i)

\* Invocation i runs an adapter that has a candidate list.
MultiCandidate(i) == inv[i].adapter.kind \in {"AIService", "AWSBedrockService"}

\* Invocation i has called generatePRDescription.
Generating(i) ==
  \E k \in 1..Len(inv[i].trace) : inv[i].trace[k] = "Generating"

\* generatePRDescription of invocation i has returned or thrown.
Settled(i) ==
  Generating(i) /\ inv[i].pc \notin {"awaitProvider", "awaitSend", "streaming"}

\* C1: when generatePRDescription of a candidate-list adapter is over and
\* the provider failed every call for a candidate before the last and
\* answered every call for the last candidate, then the provider was called
\* exactly N times, call k for candidate k, and the call returned the
\* (trimmed) text the provider gave for the last candidate.
C1_FallbackReachesLast ==
  \A i \in Invocations :
    MultiCandidate(i) /\ Settled(i) =>
      LET calls == CallsOf(i)
          models == inv[i].adapter.models
          N == Len(models)
      IN  (\A k \in 1..Len(calls) :
             calls[k].state = (IF calls[k].model = models[N]
                               THEN "ok" ELSE "error"))
          => /\ Len(calls) = N
             /\ \A k \in 1..N : calls[k].model = models[k]
             /\ inv[i].outcome = Returns(Trim(calls[N].payload))

\* C1 happens: all six candidates of AIService were called, the last one
\* answered with a non-empty text, which was returned.
C1_Witness ==
  \E i \in Invocations :
    /\ inv[i].adapter.kind = "AIService"
    /\ Settled(i)
    /\ Len(CallsOf(i)) = Len(AIService_CLAUDE_MODELS)
    /\ CallsOf(i)[Len(AIService_CLAUDE_MODELS)].state = "ok"
    /\ inv[i].outcome.ok
    /\ inv[i].outcome.value # ""

\* C2: when the provider failed every call of a candidate-list adapter and
\* generatePRDescription is over, it has thrown the all-candidates-failed
\* error, whose message ends with the message of the last error raised and
\* holds no earlier, different message.
C2_ExhaustedCarriesLastError ==
  \A i \in Invocations :
    MultiCandidate(i) /\ Settled(i) =>
      LET calls == CallsOf(i)
          last == calls[Len(calls)].payload
      IN  (\A k \in 1..Len(calls) : calls[k].state = "error")
          => /\ ~inv[i].outcome.ok
             /\ StartsWith(inv[i].outcome.message, ALL_FAILED)
             /\ EndsWith(inv[i].outcome.message, last)
             /\ \A k \in 1..Len(calls) :
                  calls[k].payload # last
                    => ~Contains(inv[i].outcome.message, calls[k].payload)

\* C2 happens: six candidates failed, an earlier one with another message
\* than the last one.
C2_Witness ==
  \E i \in Invocations :
    /\ inv[i].adapter.kind = "AIService"
    /\ Settled(i)
    /\ Len(CallsOf(i)) = Len(AIService_CLAUDE_MODELS)
    /\ \A k \in 1..Len(CallsOf(i)) : CallsOf(i)[k].state = "error"
    /\ CallsOf(i)[1].payload # CallsOf(i)[Len(CallsOf(i))].payload
    /\ ~inv[i].outcome.ok

\* C3: the candidates invoked so far are the first ones of the candidate
\* list, in its order; the list is the one the class declares; and only the
\* latest call can be one that did not fail.
C3_CandidatesInListOrder ==
  \A i \in Invocations :
    MultiCandidate(i) =>
      LET calls == CallsOf(i)
          models == inv[i].adapter.models
      IN  /\ models = (IF inv[i].adapter.kind = "AIService"
                       THEN AIService_CLAUDE_MODELS
                       ELSE AWSBedrock_CLAUDE_MODELS)
          /\ Len(calls) <= Len(models)
          /\ \A k \in 1..Len(calls) : calls[k].model = models[k]
          /\ \A k \in 1..(Len(calls) - 1) : calls[k].state = "error"

\* C3 happens: the third candidate answered after two failures and the
\* call is over.
C3_Witness ==
  \E i \in Invocations :
    /\ inv[i].adapter.kind = "AIService"
    /\ Settled(i)
    /\ Len(CallsOf(i)) = 3
    /\ CallsOf(i)[3].state = "ok"

----------------------------------------------------------------------------
(* Properties of the generate command                                      *)

\* The messages invocation i has shown, in order
MessagesOf(i) == SelectSeq(shown, LAMBDA m : m.by = i)

\* The documents invocation i has asked the editor to open
DocumentsOf(i) == SelectSeq(documents, LAMBDA d : d.by = i)

StepOrder ==
  <<"DiffFetched", "TemplateLoaded", "ConfigValidated", "AdapterConstructed",
    "Generating">>

Terminals == {"NoChanges", "Succeeded", "Failed"}

\* C4: the steps an invocation has taken are the first steps of the order
\* diff fetched, template loaded, configuration validated, adapter
\* constructed, generation invoked, followed by one end state exactly when
\* the invocation is over; the end state of an invocation that invoked
\* generation is Succeeded or Failed, Succeeded only after all five steps;
\* and a provider is called only with a diff, a template and an adapter at
\* hand, after all five steps.
C4_StepsInOrder ==
  \A i \in Invocations :
    LET t == inv[i].trace
        n == Len(t)
        ended == n > 0 /\ t[n] \in Terminals
        steps == IF ended THEN SubSeq(t, 1, n - 1) ELSE t
    IN  /\ Len(steps) <= Len(StepOrder)
        /\ steps = SubSeq(StepOrder, 1, Len(steps))
        /\ ended <=> inv[i].pc = "done"
        /\ ended /\ Len(steps) = Len(StepOrder)
             => t[n] \in {"Succeeded", "Failed"}
        /\ ended /\ t[n] = "Succeeded" => steps = StepOrder
        /\ ended /\ t[n] = "NoChanges" => steps = <<>>
        /\ CallsOf(i) # <<>>
             => /\ Len(steps) = Len(StepOrder)
                /\ ~Falsy(inv[i].diff)
                /\ inv[i].template # Undefined
                /\ inv[i].adapter.kind # "none"

\* C4 happens: an invocation went through all five steps and succeeded.
C4_Witness ==
  \E i \in Invocations :
    /\ inv[i].pc = "done"
    /\ inv[i].trace = StepOrder \o <<"Succeeded">>
    /\ CallsOf(i) # <<>>

\* C5: an invocation whose diff source returned null is over, has shown one
\* message, an informational one, has read no template, has read no backend
\* setting, has no adapter, has called no provider and has opened no
\* document.
C5_NullDiffShortCircuits ==
  \A i \in Invocations :
    inv[i].diff = Null =>
      /\ inv[i].pc = "done"
      /\ Len(MessagesOf(i)) = 1
      /\ MessagesOf(i)[1].level = "info"
      /\ inv[i].template = Undefined
      /\ inv[i].selector = Undefined
      /\ inv[i].adapter = NoAdapter
      /\ CallsOf(i) = <<>>
      /\ DocumentsOf(i) = <<>>
      /\ env = UnsetEnv

\* C5 happens: getDiff returned null in the factory revision with complete
\* AWS settings.
C5_Witness ==
  \E i \in Invocations :
    /\ inv[i].diff = Null
    /\ build = "factory"
    /\ config.awsAccessKeyId # Undefined
    /\ config.awsSecretAccessKey # Undefined
    /\ Len(MessagesOf(i)) = 1

\* C6: when the diff source returned null, the message shown in mode
\* "staged" is none of the messages of mode "commits", and the message shown
\* in mode "commits" with count N is not the one of mode "staged" and holds
\* the decimal digits of N and the word "commit".
C6_NoChangesMessageByMode ==
  \A i \in Invocations :
    inv[i].diff = Null /\ build # "legacy" /\ MessagesOf(i) # <<>> =>
      LET text == MessagesOf(i)[1].text
      IN  /\ inv[i].diffSource = "staged" =>
               \A n \in 1..UI_MAX_COMMITS :
                 text # NoChangesMessage(build, "commits", n)
          /\ inv[i].diffSource = "commits" =>
               /\ text # NoChangesMessage(build, "staged", inv[i].commitCount)
               /\ Contains(text, DecStr(inv[i].commitCount))
               /\ Contains(text, "commit")

\* C6 happens: mode "commits" with a two-digit count found no changes.
C6_Witness ==
  \E i \in Invocations :
    /\ inv[i].diff = Null
    /\ inv[i].diffSource = "commits"
    /\ inv[i].commitCount = UI_MAX_COMMITS
    /\ MessagesOf(i) # <<>>
    /\ Contains(MessagesOf(i)[1].text, "20")

----------------------------------------------------------------------------
(* Properties of the configuration checks                                  *)

\* The progress callback of invocation i has run its configuration checks.
ValidationReached(i) ==
  /\ Len(inv[i].trace) >= 3
  /\ inv[i].pc \notin {"off", "idle", "awaitDiff", "awaitTemplate", "progress"}

\* The backend the installed revision uses with the stored settings
SelectedBackend ==
  CASE build = "legacy" -> "aws-bedrock"
    [] build = "factory" -> OrElse(config.modelProvider, "aws-bedrock")
    [] build = "copilot" -> "copilot"

\* The required settings of the selected backend that are absent
RequiredMissing ==
  CASE SelectedBackend = "aws-bedrock" ->
         {f \in {"awsAccessKeyId", "awsSecretAccessKey"} : Falsy(config[f])}
    [] SelectedBackend = "google-gemini" ->
         {f \in {"googleApiKey"} : Falsy(config[f])}
    [] SelectedBackend = "copilot" ->
         {f \in {"copilotModelId"} : Falsy(config[f])}
    [] OTHER -> {}

\* The words a message would use to name a single setting
FieldWords ==
  [awsAccessKeyId |-> "ccess key", awsSecretAccessKey |-> "ecret",
   googleApiKey |-> "API key", copilotModelId |-> "model"]

\* The words the messages use to name the settings of a backend
GroupWords ==
  [x \in {"aws-bedrock", "google-gemini", "copilot"} |->
     CASE x = "aws-bedrock" -> "AWS credentials"
       [] x = "google-gemini" -> "Google API key"
       [] x = "copilot" -> "Copilot model"]

\* What C7 and its amendment share: the command is over and has failed with
\* one error message, without an adapter and without a provider call.
FailedBeforeAdapter(i) ==
  /\ inv[i].pc = "done"
  /\ inv[i].trace[Len(inv[i].trace)] = "Failed"
  /\ Len(MessagesOf(i)) = 1
  /\ MessagesOf(i)[1].level = "error"
  /\ inv[i].adapter = NoAdapter
  /\ CallsOf(i) = <<>>
  /\ env = UnsetEnv

\* C7 as claimed: with a required setting of the selected backend absent,
\* the command fails with one error that names an absent field, has no
\* adapter, has called no provider, and the error offers an action that
\* opens the configuration.
C7_AsClaimed ==
  \A i \in Invocations :
    ValidationReached(i) /\ RequiredMissing # {} =>
      /\ FailedBeforeAdapter(i)
      /\ \E f \in RequiredMissing :
           Contains(MessagesOf(i)[1].text, FieldWords[f])
      /\ MessagesOf(i)[1].items # <<>>

\* C7, amended: with a required setting of the selected backend absent, the
\* command fails with one error that names the settings of the backend as a
\* group ("AWS credentials" for either key), has no adapter and has called
\* no provider; the Copilot error carries the action 'Configure', and choosing
\* it runs the configure command; the AWS and Google errors carry no action
\* and name the configure command in their text.
C7_MissingConfiguration ==
  \A i \in Invocations :
    ValidationReached(i) /\ RequiredMissing # {} =>
      /\ FailedBeforeAdapter(i)
      /\ Contains(MessagesOf(i)[1].text, GroupWords[SelectedBackend])
      /\ Contains(MessagesOf(i)[1].text, "not configured")
           \/ Contains(MessagesOf(i)[1].text, "No Copilot model selected")
      /\ IF build = "copilot"
         THEN /\ MessagesOf(i)[1].items = <<"Configure">>
              /\ \A k \in 1..Len(commands) :
                   commands[k].by = i => commands[k].id = CONFIGURE_COMMAND
         ELSE /\ MessagesOf(i)[1].items = <<>>
              /\ Contains(MessagesOf(i)[1].text, "Please use the Configure")
              /\ commands = <<>>

\* C7 happens: the AWS backend is selected, the access key id is stored and
\* the secret key is not.
C7_Witness ==
  \E i \in Invocations :
    /\ build = "factory"
    /\ ValidationReached(i)
    /\ RequiredMissing = {"awsSecretAccessKey"}
    /\ MessagesOf(i) # <<>>
    /\ MessagesOf(i)[1].text = AWS_NOT_CONFIGURED

\* C8: createService gives an AWSBedrockService for 'aws-bedrock' and a
\* GoogleGeminiService for 'google-gemini', built from the configuration it
\* was given; for every other selector it throws "Unsupported AI provider: "
\* followed by the selector and gives no adapter; and in no case is an
\* environment variable written, a provider called or a message shown.
C8_FactoryClosure ==
  fx.pc = "called" =>
    /\ fx.provider = "aws-bedrock" =>
         /\ fx.result.ok
         /\ fx.result.value.kind = "AWSBedrockService"
         /\ fx.result.value.accessKeyId = fx.cfg.accessKeyId
         /\ fx.result.value.sessionToken = fx.cfg.sessionToken
    /\ fx.provider = "google-gemini" =>
         /\ fx.result.ok
         /\ fx.result.value.kind = "GoogleGeminiService"
         /\ fx.result.value.apiKey = fx.cfg.apiKey
    /\ fx.provider \notin {"aws-bedrock", "google-gemini"} =>
         /\ ~fx.result.ok
         /\ DOMAIN fx.result = {"ok", "message"}
         /\ fx.result.message
              = "Unsupported AI provider: " \o Interp(fx.provider)
    /\ env = UnsetEnv
    /\ transport = <<>>
    /\ shown = <<>>

\* C8 happens: the factory was called with a selector it has no case for.
C8_Witness ==
  /\ fx.pc = "called"
  /\ fx.provider = "unknown-backend"
  /\ ~fx.result.ok
  /\ Contains(fx.result.message, "unknown-backend")

EndedAs(i, s) ==
  inv[i].pc = "done" /\ inv[i].trace[Len(inv[i].trace)] = s

\* C10 as claimed: a failed invocation has shown exactly one message, and an
\* invocation whose adapter call returned has a document with the returned
\* text.
C10_AsClaimed ==
  \A i \in Invocations :
    /\ EndedAs(i, "Failed") => Len(MessagesOf(i)) = 1
    /\ Settled(i) /\ inv[i].outcome.ok =>
         /\ Len(DocumentsOf(i)) = 1
         /\ DocumentsOf(i)[1].content = inv[i].outcome.value

\* C10, amended: a failed invocation has shown exactly one message, an
\* error; an invocation whose adapter call returned a non-empty text has
\* asked for one new markdown document with that text; one whose adapter
\* call returned the empty text has no document and has failed with the
\* message "Failed to generate PR description."; and a succeeded invocation
\* has its document shown and one message, the success notice.
C10_OneMessageOrDocument ==
  \A i \in Invocations :
    /\ EndedAs(i, "Failed") =>
         /\ Len(MessagesOf(i)) = 1
         /\ MessagesOf(i)[1].level = "error"
    /\ Settled(i) /\ inv[i].outcome.ok /\ inv[i].outcome.value # "" =>
         /\ Len(DocumentsOf(i)) = 1
         /\ DocumentsOf(i)[1].content = inv[i].outcome.value
         /\ DocumentsOf(i)[1].language = "markdown"
    /\ Settled(i) /\ inv[i].outcome.ok /\ inv[i].outcome.value = "" =>
         /\ DocumentsOf(i) = <<>>
         /\ EndedAs(i, "Failed")
         /\ MessagesOf(i)[1].text = GENERATE_FAILED
    /\ EndedAs(i, "Succeeded") =>
         /\ DocumentsOf(i)[1].state = "shown"
         /\ Len(MessagesOf(i)) = 1
         /\ MessagesOf(i)[1].text = GENERATED_OK

\* C10 happens: the adapter returned a text and the document with it is
\* shown.
C10_Witness ==
  \E i \in Invocations :
    /\ EndedAs(i, "Succeeded")
    /\ inv[i].outcome.ok
    /\ DocumentsOf(i)[1].content = inv[i].outcome.value
    /\ inv[i].outcome.value # ""

----------------------------------------------------------------------------
(* Properties of overlapping invocations                                   *)

\* The value of AWS_SESSION_TOKEN that adapter a alone would leave
OwnSessionToken(a) == IF Falsy(a.sessionToken) THEN Undefined ELSE a.sessionToken

\* C11 as claimed: every provider call of an invocation is made with the
\* credentials its own adapter was constructed with and with nothing that
\* the adapter of another invocation has written.
C11_AsClaimed ==
  \A k \in 1..Len(transport) :
    LET c == transport[k]
        a == inv[c.by].adapter
    IN  /\ a.kind = "AWSBedrockService" =>
             /\ c.env.AWS_ACCESS_KEY_ID = a.accessKeyId
             /\ c.env.AWS_SECRET_ACCESS_KEY = a.secretAccessKey
             /\ c.env.AWS_SESSION_TOKEN = OwnSessionToken(a)
        /\ a.kind = "GoogleGeminiService" =>
             c.env.GOOGLE_GENERATIVE_AI_API_KEY = a.apiKey

----------------------------------------------------------------------------
(* Properties of the Copilot adapter                                       *)

\* The fragments of a stream, one after the other
RECURSIVE Concat(_)
Concat(fs) == IF fs = <<>> THEN "" ELSE Head(fs) \o Concat(Tail(fs))

\* The provider request invocation i is waiting for, or waited for last
RequestOf(i) == transport[inv[i].call.req]

\* C12: while a Copilot response is read, the adapter's result is the
\* fragments delivered so far, joined in the order they arrived, each one
\* as often as it arrived; and the text the adapter returns is that
\* concatenation with leading and trailing white space removed.
C12_FragmentsInArrivalOrder ==
  \A i \in Invocations :
    inv[i].adapter.kind = "CopilotAIService" =>
      /\ inv[i].call.result = Concat(RequestOf(i).fragments)
      /\ Settled(i) /\ RequestOf(i).state = "ok" =>
           /\ inv[i].outcome.ok
           /\ inv[i].outcome.value = Trim(Concat(RequestOf(i).fragments))

\* C12 happens: the stream delivered the same fragment twice and ended, and
\* the adapter returned the fragment twice.
C12_Witness ==
  \E i \in Invocations :
    /\ inv[i].adapter.kind = "CopilotAIService"
    /\ Settled(i)
    /\ RequestOf(i).fragments = <<"ab", "ab">>
    /\ inv[i].outcome = Returns("abab")

\* C13: a failure of the Copilot request with the code NotFound, Blocked or
\* NoPermissions makes the adapter throw the message of that category, the
\* three messages differ from each other, every other failure makes it
\* throw "Failed to generate PR description with Copilot: " followed by the
\* failure's message, and this is so whether the failure came from
\* sendRequest or from the stream after fragments had arrived.
C13_CopilotFailureCategories ==
  /\ COPILOT_NOT_FOUND # COPILOT_BLOCKED
  /\ COPILOT_NOT_FOUND # COPILOT_NO_PERMISSIONS
  /\ COPILOT_BLOCKED # COPILOT_NO_PERMISSIONS
  /\ \A i \in Invocations :
       inv[i].adapter.kind = "CopilotAIService" /\ Settled(i)
         /\ RequestOf(i).state = "error" =>
           /\ ~inv[i].outcome.ok
           /\ inv[i].outcome.message =
                CASE RequestOf(i).payload = "lm: NotFound" -> COPILOT_NOT_FOUND
                  [] RequestOf(i).payload = "lm: Blocked" -> COPILOT_BLOCKED
                  [] RequestOf(i).payload = "lm: NoPermissions" ->
                       COPILOT_NO_PERMISSIONS
                  [] OTHER -> COPILOT_FAILED \o RequestOf(i).payload

\* C13 happens: the stream failed with the code Blocked after a fragment had
\* arrived, and the adapter threw the message for blocked content.
C13_Witness ==
  \E i \in Invocations :
    /\ inv[i].adapter.kind = "CopilotAIService"
    /\ Settled(i)
    /\ RequestOf(i).fragments # <<>>
    /\ RequestOf(i).state = "error"
    /\ RequestOf(i).payload = "lm: Blocked"
    /\ inv[i].outcome = Throws(COPILOT_BLOCKED)

----------------------------------------------------------------------------
(* Properties of error messages                                            *)

\* The prefix an adapter puts before the message of the error it caught
StagePrefix(a) ==
  CASE a.kind \in {"AIService", "AWSBedrockService"} -> ALL_FAILED
    [] a.kind = "GoogleGeminiService" -> GEMINI_FAILED
    [] a.kind = "CopilotAIService" -> COPILOT_FAILED

\* The three Copilot failures that have a message of their own
Categorized(i) ==
  /\ inv[i].adapter.kind = "CopilotAIService"
  /\ RequestOf(i).payload \in {"lm: NotFound", "lm: Blocked",
                               "lm: NoPermissions"}

\* The error the adapter of invocation i threw is the adapter's prefix
\* followed by the message of the provider's error.
AdapterErrorWrapped(i) ==
  inv[i].outcome.message = StagePrefix(inv[i].adapter) \o RequestOf(i).payload

\* The one message of a failed invocation i is the command's prefix followed
\* by the message of the error the command caught: the adapter's, or the
\* editor's when the document could not be opened or shown.
CommandErrorWrapped(i) ==
  IF ~inv[i].outcome.ok
  THEN MessagesOf(i)[1].text
         = "Error generating PR description: " \o inv[i].outcome.message
  ELSE \E e \in HostErrors :
         MessagesOf(i)[1].text = "Error generating PR description: " \o e

\* Invocation i has ended with an error that it caught.
CaughtError(i) ==
  /\ Settled(i)
  /\ EndedAs(i, "Failed")
  /\ ~(inv[i].outcome.ok /\ inv[i].outcome.value = "")

\* C14 as claimed: every error an adapter throws is the adapter's prefix
\* followed by the message of the provider's error, and every error the
\* command shows for an error it caught is the command's prefix followed by
\* the message of that error.
C14_AsClaimed ==
  \A i \in Invocations :
    /\ Settled(i) /\ ~inv[i].outcome.ok => AdapterErrorWrapped(i)
    /\ CaughtError(i) => CommandErrorWrapped(i)

\* C14, amended: the same, except for the Copilot failures NotFound, Blocked
\* and NoPermissions: for those the adapter throws a fixed message in which
\* the message of the provider's error does not appear.
C14_ErrorsCarryPrefixAndCause ==
  \A i \in Invocations :
    /\ Settled(i) /\ ~inv[i].outcome.ok =>
         IF Categorized(i)
         THEN /\ inv[i].outcome.message
                   \in {COPILOT_NOT_FOUND, COPILOT_BLOCKED,
                        COPILOT_NO_PERMISSIONS}
              /\ ~Contains(inv[i].outcome.message, RequestOf(i).payload)
         ELSE AdapterErrorWrapped(i)
    /\ CaughtError(i) => CommandErrorWrapped(i)

\* C14 happens: the Copilot request failed with an error that has no
\* category, and the command showed both prefixes and the error's message.
C14_Witness ==
  \E i \in Invocations :
    /\ inv[i].adapter.kind = "CopilotAIService"
    /\ EndedAs(i, "Failed")
    /\ RequestOf(i).payload = "network down"
    /\ MessagesOf(i)[1].text =
         "Error generating PR description: Failed to generate PR description with Copilot: network down"

----------------------------------------------------------------------------
(* Properties of the response readers                                      *)

\* C15 as claimed: the text read from a response body is content[0].text
\* when the content array is there with a block, else the completion string
\* when that is there, and when neither is there nothing is thrown and the
\* text is the serialized body.
C15_AsClaimed ==
  fx.pc = "parsed" =>
    LET body == fx.body IN
    /\ body.content.set /\ body.content.blocks # <<>> =>
         fx.result = Returns(body.content.blocks[1].text)
    /\ ~body.content.set /\ ~Falsy(body.completion) =>
         fx.result = Returns(body.completion)
    /\ ~body.content.set /\ body.completion = Undefined =>
         fx.result = Returns(Stringify(body))

----------------------------------------------------------------------------
(* Properties of the prompt                                                *)

\* The first position at which t occurs in str (t occurs in str)
IndexOf(str, t) ==
  CHOOSE k \in 1..Len(str) :
    /\ SubSeq(str, k, k + Len(t) - 1) = t
    /\ \A j \in 1..(k - 1) : SubSeq(str, j, j + Len(t) - 1) # t

\* The two fenced blocks of a prompt for diff d and template t
FencedBlocks(d, t) ==
  "GIT DIFF:\n" \o FENCE \o "\n" \o d \o "\n" \o FENCE
    \o "\n\nTEMPLATE:\n" \o FENCE \o "\n" \o t \o "\n" \o FENCE \o "\n"

\* C16: the prompt for a diff and a template contains both as they are; it
\* starts with the statement of the task, then come the diff between fences
\* under "GIT DIFF:", the template between fences under "TEMPLATE:", and
\* last the instructions on filling in the template; and a second call with
\* the same arguments gives the same prompt.
C16_PromptShape ==
  fx.pc \in {"once", "twice"} =>
    LET prompt == fx.first
        blocks == FencedBlocks(fx.gitDiff, fx.template)
        k == IndexOf(prompt, "GIT DIFF:")
        after == SubSeq(prompt, k + Len(blocks), Len(prompt))
    IN  /\ Contains(prompt, fx.gitDiff)
        /\ Contains(prompt, fx.template)
        /\ StartsWith(prompt, "I need you to create a pull request description")
        /\ Contains(SubSeq(prompt, 1, k - 1), "Use the template provided below")
        /\ SubSeq(prompt, k, k + Len(blocks) - 1) = blocks
        /\ StartsWith(after, "\nPlease fill in the template")
        /\ EndsWith(after, "Complete sentences are preferred.")
        /\ fx.pc = "twice" => fx.second = fx.first

\* C16 happens: a prompt was built twice for a diff and a template that
\* differ and that contain a fence and a heading of the prompt.
C16_Witness ==
  /\ fx.pc = "twice"
  /\ fx.gitDiff = "GIT DIFF:\n" \o FENCE \o "\nx"
  /\ fx.template = FENCE
  /\ Contains(fx.second, "GIT DIFF:\n" \o FENCE \o "\n" \o fx.gitDiff)

----------------------------------------------------------------------------
(* Properties of the template manager                                      *)

\* C17: getTemplate returns a string, never null or undefined: the stored
\* custom template when the source is 'custom' and a non-empty custom
\* template is stored, and the built-in default template when the source is
\* unset, 'default' or any other value, or is 'custom' with nothing (or the
\* empty string) stored.
C17_TemplateNeverNull ==
  fx.pc = "templates" /\ fx.template.read =>
    /\ fx.template.value \notin {Undefined, Null}
    /\ fx.template.value =
         IF config.templateSource = "custom"
              /\ globalState.prTemplate \notin {Undefined, ""}
         THEN globalState.prTemplate
         ELSE DEFAULT_TEMPLATE

\* C17 happens: the source is 'custom', the custom template has been
\* deleted, and getTemplate has returned the default template.
C17_Witness ==
  /\ fx.pc = "templates"
  /\ config.templateSource = "custom"
  /\ fx.log # <<>>
  /\ fx.log[Len(fx.log)].op = "delete"
  /\ fx.template = ReadAs(DEFAULT_TEMPLATE)

\* C18: every saveCustomTemplate(t) and every deleteCustomTemplate() makes
\* one update of the global state, under the key 'prTemplate', with t or
\* with undefined; and after any sequence of them getCustomTemplate returns
\* the t of the last operation when that was a save and undefined when it
\* was a delete.
C18_SaveDeleteGet ==
  fx.pc = "templates" =>
    /\ Len(fx.updates) = Len(fx.log)
    /\ \A k \in 1..Len(fx.log) :
         fx.updates[k] = [key |-> "prTemplate", value |-> fx.log[k].value]
    /\ fx.log # <<>> =>
         /\ getCustomTemplate(globalState) = fx.log[Len(fx.log)].value
         /\ fx.custom.read => fx.custom.value = fx.log[Len(fx.log)].value

\* C18 happens: a template was saved, deleted and another one saved, and
\* getCustomTemplate gave the last one.
C18_Witness ==
  /\ fx.pc = "templates"
  /\ Len(fx.log) = 3
  /\ fx.log[1] = [op |-> "save", value |-> "Custom PR Template"]
  /\ fx.log[2].op = "delete"
  /\ fx.log[3] = [op |-> "save", value |-> "New PR Template"]
  /\ fx.custom = ReadAs("New PR Template")

----------------------------------------------------------------------------
(* Properties of the diff reader                                           *)

\* The git commands getDiff runs for the caller fx
CommandsRun ==
  IF fx.reader = "first" THEN {"unstaged"}
  ELSE IF fx.diffSource = "commits" THEN {"commit"}
  ELSE {"unstaged", "staged"}

\* C19 as claimed: when a git command that getDiff runs fails, getDiff
\* rejects with an Error whose message is "Failed to get git diff: "
\* followed by the message of the command's error.
C19_AsClaimed ==
  fx.pc = "read" =>
    \A c \in CommandsRun :
      ~fx.git[c].ok =>
        fx.result = Throws("Failed to get git diff: " \o fx.git[c].message)

----------------------------------------------------------------------------
(* Properties of the Gemini adapter                                        *)

\* C20: the model id of a GoogleGeminiService is one of the supported
\* models: the configured one when that is supported, 'gemini-1.5-flash'
\* when the configured one is unsupported or there is none; and every
\* provider call of the adapter is made with that model id.
C20_GeminiModelSupported ==
  \A i \in Invocations :
    inv[i].adapter.kind = "GoogleGeminiService" =>
      /\ inv[i].adapter.modelId \in SUPPORTED_MODELS
      /\ inv[i].adapter.modelId =
           IF config.googleGeminiModel \in SUPPORTED_MODELS
           THEN config.googleGeminiModel
           ELSE "gemini-1.5-flash"
      /\ CallsOf(i) # <<>>
      /\ \A k \in 1..Len(CallsOf(i)) :
           /\ CallsOf(i)[k].adapter = "GoogleGeminiService"
           /\ CallsOf(i)[k].model = inv[i].adapter.modelId

\* C20 happens: the configured model is not a supported one and the
\* provider has answered a call made with 'gemini-1.5-flash'.
C20_Witness ==
  \E i \in Invocations :
    /\ inv[i].adapter.kind = "GoogleGeminiService"
    /\ config.googleGeminiModel = "gemini-pro"
    /\ Settled(i)
    /\ CallsOf(i)[1].model = "gemini-1.5-flash"

-----------------------------------------------------------------------------
(* The configuration panel of the copilot revision                         *)

\* Most runs of the configureProvider command in one run of the model.
MaxConfigureRuns == 3

\* let providerConfigPanel: vscode.WebviewPanel | undefined = undefined
\* Panels are numbered from 1 in creation order; 0 stands for undefined.
NoPanel == 0

CONFIGURE_OPENING == "Opening Configuration..."
WEBVIEW_DISPOSED == "Webview is disposed"
ConfigureError(message) == "Error configuring provider: " \o message

InitPanel ==
  /\ build = "copilot"
  /\ config = UnsetConfig
  /\ globalState = [prTemplate |-> Undefined]
  /\ env = UnsetEnv
  /\ inv = [i \in Invocations |-> FreshInvocation("off")]
  /\ shown = <<>>
  /\ transport = <<>>
  /\ documents = <<>>
  /\ commands = <<>>
  /\ fx = [pc |-> "panel", providerConfigPanel |-> NoPanel, created |-> 0,
           open |-> {}, listening |-> {}, revealed |-> 0,
           filling |-> [i \in Invocations |-> NoPanel], runs |-> 0]

\* The configureProvider command up to its first await: the panel that is
\* tracked is revealed (a panel that was closed throws), or a panel is
\* created, tracked, and the command waits for the panel's content.
ConfigureProviderTriggered(i) ==
  /\ fx.pc = "panel"
  /\ fx.filling[i] = NoPanel
  /\ fx.runs < MaxConfigureRuns
  /\ IF fx.providerConfigPanel # NoPanel
     THEN IF fx.providerConfigPanel \in fx.open
          THEN /\ fx' = [fx EXCEPT !.runs = @ + 1, !.revealed = @ + 1]
               /\ shown' = Append(shown, [by |-> i, level |-> "info",
                             text |-> CONFIGURE_OPENING, items |-> <<"OK">>])
          ELSE /\ fx' = [fx EXCEPT !.runs = @ + 1]
               /\ shown' = shown \o
                    << [by |-> i, level |-> "info",
                        text |-> CONFIGURE_OPENING, items |-> <<"OK">>],
                       [by |-> i, level |-> "error",
                        text |-> ConfigureError(WEBVIEW_DISPOSED),
                        items |-> <<>>] >>
     ELSE /\ fx' = [fx EXCEPT !.runs = @ + 1,
                      !.created = @ + 1,
                      !.open = @ \cup {fx.created + 1},
                      !.providerConfigPanel = fx.created + 1,
                      !.filling[i] = fx.created + 1]
          /\ shown' = Append(shown, [by |-> i, level |-> "info",
                        text |-> CONFIGURE_OPENING, items |-> <<"OK">>])
  /\ UNCHANGED <<build, config, globalState, env, inv, transport,
                 documents, commands>>

\* The rest of the command, once getProviderConfigWebviewContent has
\* answered: the content is assigned to the panel the command created (a
\* panel closed in the meantime throws), then the message handler and the
\* dispose listener are registered on the tracked panel.
PanelFilled(i) ==
  /\ fx.pc = "panel"
  /\ fx.filling[i] # NoPanel
  /\ IF fx.filling[i] \in fx.open
     THEN /\ fx' = [fx EXCEPT !.filling[i] = NoPanel,
                      !.listening = @ \cup {fx.providerConfigPanel}]
          /\ UNCHANGED shown
     ELSE /\ fx' = [fx EXCEPT !.filling[i] = NoPanel]
          /\ Show(i, "error", ConfigureError(WEBVIEW_DISPOSED), <<>>)
  /\ UNCHANGED <<build, config, globalState, env, inv, transport,
                 documents, commands>>

\* The user closes panel p; the dispose listener, when one is registered
\* on p, clears the tracked panel.
PanelClosed(p) ==
  /\ fx.pc = "panel"
  /\ p \in fx.open
  /\ fx' = [fx EXCEPT !.open = @ \ {p},
              !.providerConfigPanel = IF p \in fx.listening
                                      THEN NoPanel ELSE @]
  /\ UNCHANGED shown
  /\ UNCHANGED <<build, config, globalState, env, inv, transport,
                 documents, commands>>

NextPanel ==
  \/ \E i \in Invocations : ConfigureProviderTriggered(i)
  \/ \E i \in Invocations : PanelFilled(i)
  \/ \E p \in 1..MaxConfigureRuns : PanelClosed(p)

SpecPanel == InitPanel /\ [][NextPanel]_vars

-----------------------------------------------------------------------------
(* Properties of the configuration panel                                   *)

\* Never more than one configuration panel is open.
AtMostOnePanel ==
  fx.pc = "panel" => Cardinality(fx.open) <= 1

\* C21 (as claimed): at most one configuration panel exists at any time,
\* and once the panel is disposed the handle is cleared, so that the
\* tracked panel, when there is one, is a panel that is open.
C21_AsClaimed ==
  fx.pc = "panel" =>
    /\ Cardinality(fx.open) <= 1
    /\ fx.providerConfigPanel # NoPanel => fx.providerConfigPanel \in fx.open

-----------------------------------------------------------------------------
(* The configuration form: saveConfiguration, then the generate command    *)

\* Most saveConfiguration messages in one run.
MaxConfigSaves == 2

\* NaN
NaN == [set |-> FALSE, nan |-> TRUE]

\* The value of a decimal digit character, -1 for any other character.
DigitValue(c) ==
  CASE c = "0" -> 0 [] c = "1" -> 1 [] c = "2" -> 2 [] c = "3" -> 3
    [] c = "4" -> 4 [] c = "5" -> 5 [] c = "6" -> 6 [] c = "7" -> 7
    [] c = "8" -> 8 [] c = "9" -> 9 [] OTHER -> -1

\* The leading decimal digits of s, read as a number after acc.
RECURSIVE LeadingDigits(_, _, _)
LeadingDigits(s, acc, any) ==
  IF s = "" \/ DigitValue(SubSeq(s, 1, 1)) < 0
  THEN IF any THEN Num(acc) ELSE NaN
  ELSE LeadingDigits(SubSeq(s, 2, Len(s)),
                     10 * acc + DigitValue(SubSeq(s, 1, 1)), TRUE)

\* parseInt(s, 10): leading white space and one sign are skipped, the
\* leading digits are read, and what follows them is ignored.
parseInt10(s) ==
  LET t == TrimStart(s)
      signed == t # "" /\ SubSeq(t, 1, 1) \in {"-", "+"}
      v == LeadingDigits(IF signed THEN SubSeq(t, 2, Len(t)) ELSE t, 0, FALSE)
  IN  IF v.set /\ signed /\ SubSeq(t, 1, 1) = "-" THEN Num(0 - v.n) ELSE v

\* n || 1 for a number n: NaN and 0 are falsy.
OrOne(v) == IF v.set /\ v.n # 0 THEN v.n ELSE 1

\* The click handler of 'save-config' in the webview: what it posts for
\* the text of the commit count field.
PostedCommitCount(text) == OrOne(parseInt10(text))

\* What the user can leave in the commit count field before saving.
CommitFieldTexts ==
  {"", "0", "abc", "-3", "25", "7 commits", DecStr(UI_MAX_COMMITS)}
   \cup {DecStr(n) : n \in 1..MaxCommitCount}

\* The saveConfiguration case of the panel's message handler: the four
\* settings it writes, in the order of its awaits.
SaveConfigurationUpdates(message) ==
  << [key |-> "copilotModelId", value |-> message.copilotModelId],
     [key |-> "templateSource", value |-> message.templateSource],
     [key |-> "diffSource", value |-> OrElse(message.diffSource, "staged")],
     [key |-> "commitCount", value |-> Num(OrOne(Num(message.commitCount)))] >>

\* config.update(key, value, Global) has been applied.
Updated(cfg, u) ==
  CASE u.key = "copilotModelId" -> [cfg EXCEPT !.copilotModelId = u.value]
    [] u.key = "templateSource" -> [cfg EXCEPT !.templateSource = u.value]
    [] u.key = "diffSource" -> [cfg EXCEPT !.diffSource = u.value]
    [] u.key = "commitCount" -> [cfg EXCEPT !.commitCount = u.value]

CONFIGURATION_SAVED == "Configuration saved successfully"

InitSettings ==
  /\ build = "copilot"
  /\ config = UnsetConfig
  /\ globalState = [prTemplate |-> Undefined]
  /\ env = UnsetEnv
  /\ inv = [i \in Invocations |-> FreshInvocation("idle")]
  /\ shown = <<>>
  /\ transport = <<>>
  /\ documents = <<>>
  /\ commands = <<>>
  /\ fx = [pc |-> "settings", saves |-> 0, step |-> 0]

\* The user saves the form: the webview posts saveConfiguration and the
\* handler runs up to its first await.
SaveConfigurationPosted ==
  /\ fx.pc = "settings"
  /\ fx.step = 0
  /\ fx.saves < MaxConfigSaves
  /\ \E text \in CommitFieldTexts, ds \in {"staged", "commits"} :
       fx' = [pc |-> "settings", saves |-> fx.saves + 1, step |-> 1,
              message |-> [command |-> "saveConfiguration",
                           copilotModelId |-> "gpt-4o",
                           templateSource |-> "default",
                           diffSource |-> ds,
                           commitCount |-> PostedCommitCount(text)]]
  /\ UNCHANGED <<build, config, globalState, env, inv, shown, transport,
                 documents, commands>>

\* One `await config.update(...)` of the handler has resolved; after the
\* fourth the handler shows its message and ends.
SettingWritten ==
  /\ fx.pc = "settings"
  /\ fx.step \in 1..4
  /\ config' = Updated(config, SaveConfigurationUpdates(fx.message)[fx.step])
  /\ IF fx.step = 4
     THEN /\ Show("panel", "info", CONFIGURATION_SAVED, <<>>)
          /\ fx' = [pc |-> "settings", saves |-> fx.saves, step |-> 0]
     ELSE /\ UNCHANGED shown
          /\ fx' = [fx EXCEPT !.step = @ + 1]
  /\ UNCHANGED <<build, globalState, env, inv, transport, documents,
                 commands>>

NextSettings ==
  \/ SaveConfigurationPosted
  \/ SettingWritten
  \/ \E i \in Invocations : GenerateTriggered(i)
  \/ \E i \in Invocations : DiffReturned(i)

SpecSettings == InitSettings /\ [][NextSettings]_vars

-----------------------------------------------------------------------------
(* Properties of the commit count                                          *)

\* C22 (as claimed): whenever getDiff has been called in 'commits' mode,
\* the count it was called with is an integer from 1 to 20.
C22_AsClaimed ==
  \A i \in Invocations :
    (inv[i].pc \notin {"off", "idle"} /\ inv[i].diffSource = "commits") =>
      inv[i].commitCount \in 1..UI_MAX_COMMITS

-----------------------------------------------------------------------------
(* Properties of the diff handed to the adapters                           *)

\* C23: what getDiff returned to the command is null or a text that is not
\* empty after trimming; an invocation that got null has ended without an
\* adapter and without a provider call; and an invocation that has called
\* generatePRDescription called it with a diff that is neither null nor
\* empty nor white space only, the one the prompt was built from.
C23_DiffNeverBlank ==
  \A i \in Invocations :
    /\ inv[i].diff \notin {Undefined, Null} => Trim(inv[i].diff) # ""
    /\ inv[i].diff = Null =>
         /\ inv[i].pc = "done"
         /\ inv[i].adapter = NoAdapter
         /\ CallsOf(i) = <<>>
    /\ (Generating(i) \/ CallsOf(i) # <<>>) =>
         /\ inv[i].diff \notin {Undefined, Null, ""}
         /\ Trim(inv[i].diff) # ""
         /\ inv[i].call.prompt = createPrompt(inv[i].diff, inv[i].template)

\* C23 happens: the Copilot adapter was called with a diff that has text,
\* and its request has been sent.
C23_Witness ==
  \E i \in Invocations :
    /\ Generating(i)
    /\ inv[i].adapter.kind = "CopilotAIService"
    /\ Contains(inv[i].diff, "+line")
    /\ CallsOf(i) # <<>>

-----------------------------------------------------------------------------
(* No step of the generate command is taken twice                          *)

\* The steps and end states invocation i has recorded, after a step of the
\* program, hold each entry once.
NoStepTwice(t) ==
  \A j, k \in 1..Len(t) : j # k => t[j] # t[k]

\* The invocation whose steps are t has ended.
Ended(t) == t # <<>> /\ t[Len(t)] \in Terminals

\* C24: in every step of the program and for every invocation, the steps
\* recorded so far stay as they are and new ones are only added after them;
\* no step is recorded twice, so generatePRDescription is called at most
\* once; and once an invocation has ended (no changes, succeeded or failed)
\* it records no further step, calls no provider, constructs no adapter
\* and opens no document.
C24_NoRetry ==
  [][\A i \in Invocations :
       LET t == inv[i].trace
           u == inv'[i].trace
       IN  /\ Len(u) >= Len(t)
           /\ SubSeq(u, 1, Len(t)) = t
           /\ NoStepTwice(u)
           /\ Ended(t) =>
                /\ u = t
                /\ inv'[i].pc = "done"
                /\ inv'[i].adapter = inv[i].adapter
                /\ inv'[i].call = inv[i].call
                /\ SelectSeq(transport', LAMBDA c : c.by = i) = CallsOf(i)
                /\ SelectSeq(documents', LAMBDA d : d.by = i) = DocumentsOf(i)
    ]_vars

\* C24 happens: the Copilot revision called the adapter, the only request
\* failed, and the invocation ended as failed with that one request.
C24_Witness ==
  \E i \in Invocations :
    /\ build = "copilot"
    /\ inv[i].trace = StepOrder \o <<"Failed">>
    /\ Len(CallsOf(i)) = 1
    /\ CallsOf(i)[1].state = "error"
    /\ inv[i].pc = "done"

-----------------------------------------------------------------------------
(* Properties of the model resolution of the Copilot revision              *)

\* The steps of an invocation that passed the model id check and failed
\* before an adapter was constructed: getModelById gave no model.
ResolutionFailed(i) ==
  /\ build = "copilot"
  /\ inv[i].trace = <<"DiffFetched", "TemplateLoaded", "ConfigValidated",
                      "Failed">>

\* C25: in the Copilot revision an adapter, when there is one, holds a
\* model handle the host offers, the one whose id is the configured model
\* id, and every request is sent to that model; while the model is being
\* resolved there is no adapter and no request; and an invocation whose
\* model could not be resolved has ended with no adapter, no request, and
\* one message, an error that offers 'Configure'.
C25_ModelResolvedFirst ==
  \A i \in Invocations :
    build = "copilot" =>
      /\ inv[i].adapter # NoAdapter =>
           /\ inv[i].adapter.kind = "CopilotAIService"
           /\ inv[i].adapter.model \in CopilotModels
           /\ inv[i].adapter.model.id = config.copilotModelId
      /\ \A k \in 1..Len(CallsOf(i)) :
           /\ inv[i].adapter # NoAdapter
           /\ CallsOf(i)[k].model = inv[i].adapter.model.id
      /\ inv[i].pc = "awaitModel" =>
           inv[i].adapter = NoAdapter /\ CallsOf(i) = <<>>
      /\ ResolutionFailed(i) =>
           /\ inv[i].pc = "done"
           /\ inv[i].adapter = NoAdapter
           /\ CallsOf(i) = <<>>
           /\ MessagesOf(i) =
                << [by |-> i, level |-> "error", text |-> MODEL_NOT_AVAILABLE,
                    items |-> <<"Configure">>] >>

\* C25 happens: a model id is configured, getModelById gave no model, and
\* the error has been shown.
C25_Witness ==
  \E i \in Invocations :
    /\ ResolutionFailed(i)
    /\ config.copilotModelId = "gpt-4o"
    /\ Len(MessagesOf(i)) = 1
    /\ MessagesOf(i)[1].text = MODEL_NOT_AVAILABLE

-----------------------------------------------------------------------------
(* Properties of the session token in the process environment              *)

\* C27 (as claimed): every provider call of an AWS adapter that was
\* constructed without a session token is made with AWS_SESSION_TOKEN
\* unset in the process environment, whatever generations ran before it.
C27_AsClaimed ==
  \A k \in 1..Len(transport) :
    LET a == inv[transport[k].by].adapter
    IN  (a.kind = "AWSBedrockService" /\ Falsy(a.sessionToken)) =>
          transport[k].env.AWS_SESSION_TOKEN = Undefined

-----------------------------------------------------------------------------
(* Properties of getDiff in staged mode                                    *)

\* getDiff of the current revision has been called in staged mode and has
\* returned.
StagedRead ==
  /\ fx.pc = "read"
  /\ fx.reader = "current"
  /\ fx.diffSource = "staged"

-----------------------------------------------------------------------------
(* The no-changes message and the branch the diff reader took              *)

\* C28 (as claimed): when getDiff returned null, the message the command
\* shows is the message of the branch getDiff took for the configured
\* diffSource: the staged message after the staged branch, the commits
\* message after the commits branch.
C28_AsClaimed ==
  \A i \in Invocations :
    (build # "legacy" /\ inv[i].diff = Null /\ MessagesOf(i) # <<>>) =>
      MessagesOf(i)[1].text =
        NoChangesMessage(build, PathTaken(inv[i].diffSource),
                         inv[i].commitCount)

-----------------------------------------------------------------------------
(* The cancellation token source of the Copilot adapter                    *)

\* C29 (as claimed): once generatePRDescription of the Copilot adapter has
\* returned or thrown, the cancellation token source it created has been
\* disposed.
C29_AsClaimed ==
  \A i \in Invocations :
    (inv[i].adapter.kind = "CopilotAIService" /\ Settled(i)) =>
      ~inv[i].call.tokenSource

-----------------------------------------------------------------------------
(* The message handlers of the configuration panel                         *)

\* Most messages the panel's webview posts in one run.
MaxPanelMessages == 3

\* What the webview of the configuration panel can post
PanelMessages ==
  {[command |-> "saveConfiguration", copilotModelId |-> "gpt-4o",
    templateSource |-> ts, diffSource |-> "staged", commitCount |-> 1] :
      ts \in {"default", "custom"}}
  \cup {[command |-> "saveCustomTemplate", template |-> t] :
          t \in {"Custom PR Template", "New PR Template"}}
  \cup {[command |-> "deleteCustomTemplate"]}

\* The settings the handler of message m writes with
\* `await config.update(...)`, in the order of its awaits.
UpdatesOf(m) ==
  CASE m.command = "saveConfiguration" -> SaveConfigurationUpdates(m)
    [] m.command = "saveCustomTemplate" ->
         << [key |-> "templateSource", value |-> "custom"] >>
    [] m.command = "deleteCustomTemplate" ->
         << [key |-> "templateSource", value |-> "default"] >>

\* The stored template once the handler of message m has reached its first
\* await.
StoredBy(m, gs) ==
  CASE m.command = "saveConfiguration" -> gs
    [] m.command = "saveCustomTemplate" -> saveCustomTemplate(gs, m.template)
    [] m.command = "deleteCustomTemplate" -> deleteCustomTemplate(gs)

\* The message a handler shows when its last await has resolved.
DoneMessage(m) ==
  CASE m.command = "saveConfiguration" -> CONFIGURATION_SAVED
    [] m.command = "saveCustomTemplate" ->
         "Custom template saved successfully"
    [] m.command = "deleteCustomTemplate" -> "Custom template deleted"

\* The panel is open, its handler is registered, nothing has been posted.
\* queue holds the settings writes the host has been asked for and has not
\* applied yet; the host applies them in the order they were asked for.
InitMessages ==
  /\ build = "copilot"
  /\ config = UnsetConfig
  /\ globalState \in {[prTemplate |-> t] : t \in CustomTemplates}
  /\ env = UnsetEnv
  /\ inv = [i \in Invocations |-> FreshInvocation("off")]
  /\ shown = <<>>
  /\ transport = <<>>
  /\ documents = <<>>
  /\ commands = <<>>
  /\ fx = [pc |-> "messages", received |-> <<>>, rest |-> <<>>,
           queue |-> <<>>]

\* A message arrives: its handler runs up to its first await, that is, it
\* changes the stored template (template messages) and asks for its first
\* settings write. Handlers of earlier messages may still be waiting.
MessageReceived ==
  /\ fx.pc = "messages"
  /\ Len(fx.received) < MaxPanelMessages
  /\ \E m \in PanelMessages :
       /\ globalState' = StoredBy(m, globalState)
       /\ fx' = [fx EXCEPT
            !.received = Append(@, m),
            !.rest = Append(@, Tail(UpdatesOf(m))),
            !.queue = Append(@, [h |-> Len(fx.received) + 1,
                                 u |-> Head(UpdatesOf(m))])]
  /\ UNCHANGED <<config, shown>>
  /\ UNCHANGED <<build, env, inv, transport, documents, commands>>

\* The host has applied the oldest write; the handler that awaited it goes
\* on to its next `await config.update(...)`, or shows its message and
\* ends.
WriteApplied ==
  /\ fx.pc = "messages"
  /\ fx.queue # <<>>
  /\ LET w == Head(fx.queue)
     IN  /\ config' = Updated(config, w.u)
         /\ IF fx.rest[w.h] # <<>>
            THEN /\ fx' = [fx EXCEPT
                      !.queue = Append(Tail(@),
                                       [h |-> w.h, u |-> Head(fx.rest[w.h])]),
                      !.rest[w.h] = Tail(@)]
                 /\ UNCHANGED shown
            ELSE /\ fx' = [fx EXCEPT !.queue = Tail(@)]
                 /\ Show("panel", "info", DoneMessage(fx.received[w.h]), <<>>)
  /\ UNCHANGED globalState
  /\ UNCHANGED <<build, env, inv, transport, documents, commands>>

NextMessages == MessageReceived \/ WriteApplied

SpecMessages == InitMessages /\ [][NextMessages]_vars

-----------------------------------------------------------------------------
(* Properties of the panel's template messages                             *)

\* Every handler of the panel has completed.
HandlersDone == fx.queue = <<>>

\* C30 (as claimed): when every handler has completed and the last message
\* received was a template message, the stored state is the one of that
\* message: after saveCustomTemplate(t) the stored template is t and
\* templateSource is 'custom'; after deleteCustomTemplate no template is
\* stored and templateSource is 'default'.
C30_AsClaimed ==
  (fx.pc = "messages" /\ HandlersDone /\ fx.received # <<>>) =>
    LET last == fx.received[Len(fx.received)]
    IN  /\ last.command = "saveCustomTemplate" =>
             /\ globalState.prTemplate = last.template
             /\ config.templateSource = "custom"
        /\ last.command = "deleteCustomTemplate" =>
             /\ globalState.prTemplate = Undefined
             /\ config.templateSource = "default"

====
